---------------------------- MODULE Spec2Model ----------------------------
(***************************************************************************)
(* Model of the antigravity-auth plugin of alma-plugins.                   *)
(*                                                                         *)
(* Account pool manager (plugins/antigravity-auth/lib/account-manager.ts): *)
(* the accounts array, the per-family current pointers, the rotation       *)
(* cursor and the per-account, per-quota-key rate-limit reset times.       *)
(* Time is the value of Date.now(), advanced by the Tick action; every     *)
(* method of AccountManager is one atomic action (the methods are          *)
(* synchronous and never suspend).                                         *)
(***************************************************************************)
EXTENDS Integers, Sequences, FiniteSets, TLC

(***************************************************************************)
(* Bounds of the model.                                                    *)
(***************************************************************************)
\* largest pool the model builds
MaxAccounts == 2
\* Date.now() ranges over 0..MaxTime
MaxTime == 1
\* number of markRateLimited calls of one behaviour
MaxMarks == 2

(***************************************************************************)
(* Types (account-manager.ts:16-22).                                       *)
(***************************************************************************)
ModelFamily == {"claude", "gemini"}
HeaderStyle == {"antigravity", "gemini-cli"}
\* requestType is optional: "undefined" stands for an omitted argument
RequestType == {"claude", "gemini", "image_gen", "undefined"}
QuotaKey == {"claude", "gemini-antigravity", "gemini-cli", "gemini-image"}
RateLimitReason == {"quota_exhausted", "rate_limit_exceeded", "server_error", "unknown"}

\* a number that is `undefined` (an absent map entry, an omitted argument)
Undefined == -1
\* a string that is `undefined`
NoString == "undefined"
\* the null account / "none selected" pointer
NoIndex == -1

Max(a, b) == IF a >= b THEN a ELSE b
Min(a, b) == IF a <= b THEN a ELSE b

\* RATE_LIMIT_DEFAULTS
RATE_LIMIT_DEFAULTS ==
    [quota_exhausted     |-> 60 * 60 * 1000,
     rate_limit_exceeded |-> 30 * 1000,
     server_error        |-> 20 * 1000,
     unknown             |-> 60 * 1000]

\* {} : no rate limit recorded under any key
NoLimits == [k \in QuotaKey |-> Undefined]

(***************************************************************************)
(* Helper functions.  `t` is the value nowMs() returns.                    *)
(***************************************************************************)
\* mutant: the header style is not told apart, one key serves both
getQuotaKey_IgnoreStyle(family, headerStyle, requestType) ==
    IF family = "claude" THEN "claude"
    ELSE IF requestType = "image_gen" THEN "gemini-image"
    ELSE "gemini-antigravity"

\* mutant: image generation is not told apart from text generation
getQuotaKey_NoImage(family, headerStyle, requestType) ==
    IF family = "claude" THEN "claude"
    ELSE IF headerStyle = "gemini-cli" THEN "gemini-cli"
    ELSE "gemini-antigravity"

getQuotaKey(family, headerStyle, requestType) ==
    IF family = "claude" THEN "claude"
    ELSE IF requestType = "image_gen" THEN "gemini-image"
    ELSE IF headerStyle = "gemini-cli" THEN "gemini-cli"
    ELSE "gemini-antigravity"

isRateLimitedForQuotaKey(account, key, t) ==
    LET resetTime == account.rateLimitResetTimes[key]
    IN  resetTime # Undefined /\ t < resetTime

\* mutant: a limited image key blocks a gemini account as well
isRateLimitedForFamily_ImageToo(account, family, t) ==
    IF family = "claude"
    THEN isRateLimitedForQuotaKey(account, "claude", t)
    ELSE \/ /\ isRateLimitedForQuotaKey(account, "gemini-antigravity", t)
            /\ isRateLimitedForQuotaKey(account, "gemini-cli", t)
         \/ isRateLimitedForQuotaKey(account, "gemini-image", t)

\* mutant: one limited header style is enough to block a gemini account
isRateLimitedForFamily_Either(account, family, t) ==
    IF family = "claude"
    THEN isRateLimitedForQuotaKey(account, "claude", t)
    ELSE \/ isRateLimitedForQuotaKey(account, "gemini-antigravity", t)
         \/ isRateLimitedForQuotaKey(account, "gemini-cli", t)

isRateLimitedForFamily(account, family, t) ==
    IF family = "claude"
    THEN isRateLimitedForQuotaKey(account, "claude", t)
    ELSE /\ isRateLimitedForQuotaKey(account, "gemini-antigravity", t)
         /\ isRateLimitedForQuotaKey(account, "gemini-cli", t)

\* mutant: the comparison of the eviction is the wrong way round
clearExpiredRateLimits_Unexpired(account, t) ==
    [account EXCEPT !.rateLimitResetTimes =
        [key \in QuotaKey |->
            IF account.rateLimitResetTimes[key] # Undefined
               /\ t <= account.rateLimitResetTimes[key]
            THEN Undefined
            ELSE account.rateLimitResetTimes[key]]]

\* the account after clearExpiredRateLimits(account)
clearExpiredRateLimits(account, t) ==
    [account EXCEPT !.rateLimitResetTimes =
        [key \in QuotaKey |->
            IF account.rateLimitResetTimes[key] # Undefined
               /\ t >= account.rateLimitResetTimes[key]
            THEN Undefined
            ELSE account.rateLimitResetTimes[key]]]

(***************************************************************************)
(* State of one AccountManager, and the clock.                             *)
(***************************************************************************)
VARIABLES
    accounts,                     \* ManagedAccount[] (position i+1 holds array slot i)
    cursor,                       \* rotation cursor
    currentAccountIndexByFamily,  \* [ModelFamily -> index or -1]
    now,                          \* Date.now()
    marks,                        \* markRateLimited calls so far
    flows,                        \* the request flows using the manager (SpecFlows)
    visited,                      \* accounts a rotation test was handed (SpecRR)
    customModelMapping,           \* models.ts: the custom route table, in insertion order
    resolution,                   \* the model id resolved last, and what it resolved to
    outbound,                     \* the request transformRequest built last
    stream,                       \* a streaming response being transformed
    unwrapped,                    \* the response transformNonStreamingResponse returned last
    quota,                        \* a fetchQuota call: its two requests and its outcome
    report                        \* a rate-limit error being reported to the manager

vars == <<accounts, cursor, currentAccountIndexByFamily, now, marks, flows, visited,
          customModelMapping, resolution, outbound, stream, unwrapped, quota, report>>

\* the state of the model resolver (models.ts), which the manager never touches
resolver == <<customModelMapping, resolution>>

\* the state of the request and response transforms and of the quota client
wire == <<outbound, stream, unwrapped, quota, report>>

\* the variables of the callers, which no method of the manager touches
callers == <<flows, visited, resolver, wire>>

\* no model id was resolved yet
NoResolution ==
    [model |-> NoString, baseModel |-> NoString, family |-> NoString,
     effectiveModel |-> NoString, thinkingLevel |-> NoString]

\* models.ts as loaded: the custom route table is empty
InitResolver ==
    /\ customModelMapping = <<>>
    /\ resolution = NoResolution

\* nothing was transformed and no quota was fetched yet
NoOutbound == [pc |-> "none"]
NoStream == [pc |-> "none"]
NoResponse == [pc |-> "none"]
NoQuota == [pc |-> "none"]
NoReport == [pc |-> "none"]

InitWire ==
    /\ outbound = NoOutbound
    /\ stream = NoStream
    /\ unwrapped = NoResponse
    /\ quota = NoQuota
    /\ report = NoReport

\* array slot i (0-based) of a ManagedAccount[]
At(accs, i) == accs[i + 1]
InRange(accs, i) == i >= 0 /\ i < Len(accs)

\* the manager's fields as one value, for the methods below
Mgr == [accounts |-> accounts, cursor |-> cursor,
        currentAccountIndexByFamily |-> currentAccountIndexByFamily]


(***************************************************************************)
(* AccountManager methods.  Each takes the manager's fields m and the      *)
(* value t of nowMs(), and yields the fields after the call and the value  *)
(* returned: [m |-> ..., ret |-> ...].  An account is returned as its      *)
(* array slot (NoIndex for null).                                          *)
(***************************************************************************)
getCurrentAccountForFamily(m, family) ==
    LET index == m.currentAccountIndexByFamily[family]
    IN  IF index >= 0 /\ index < Len(m.accounts) THEN index ELSE NoIndex

\* slots of the accounts that pass the filter of getNextForFamily, in array order
AvailableSlots(accs, family, t) ==
    SelectSeq([i \in 1..Len(accs) |-> i - 1],
              LAMBDA i : ~isRateLimitedForFamily(At(accs, i), family, t))

\* mutant: the rotation indexes the whole pool instead of the filtered list
getNextForFamily_Unfiltered(m, family, t) ==
    LET cleared == [i \in 1..Len(m.accounts) |-> clearExpiredRateLimits(m.accounts[i], t)]
        available == AvailableSlots(cleared, family, t)
    IN  IF Len(available) = 0
        THEN [m |-> [m EXCEPT !.accounts = cleared], ret |-> NoIndex]
        ELSE LET slot == m.cursor % Len(cleared)
             IN  [m |-> [m EXCEPT !.accounts = [cleared EXCEPT ![slot + 1].lastUsed = t],
                                  !.cursor = m.cursor + 1],
                  ret |-> slot]

getNextForFamily(m, family, t) ==
    LET \* the filter callback clears the expired limits of every account
        cleared == [i \in 1..Len(m.accounts) |-> clearExpiredRateLimits(m.accounts[i], t)]
        available == AvailableSlots(cleared, family, t)
    IN  IF Len(available) = 0
        THEN [m |-> [m EXCEPT !.accounts = cleared], ret |-> NoIndex]
        ELSE LET slot == available[(m.cursor % Len(available)) + 1]
             IN  [m |-> [m EXCEPT !.accounts = [cleared EXCEPT ![slot + 1].lastUsed = t],
                                  !.cursor = m.cursor + 1],
                  ret |-> slot]

\* mutant: the current account is returned without testing its rate limits
getCurrentOrNextForFamily_NoCheck(m, family, t) ==
    LET current == getCurrentAccountForFamily(m, family)
    IN  IF current # NoIndex
        THEN [m |-> [m EXCEPT !.accounts[current + 1].lastUsed = t], ret |-> current]
        ELSE getNextForFamily(m, family, t)

\* mutant: the call rotates without looking at the current account
getCurrentOrNextForFamily_AlwaysNext(m, family, t) ==
    LET r == getNextForFamily(m, family, t)
    IN  IF r.ret # NoIndex
        THEN [m |-> [r.m EXCEPT
                       !.currentAccountIndexByFamily[family] = At(r.m.accounts, r.ret).index,
                       !.accounts[r.ret + 1].lastSwitchReason = "rate-limit"],
              ret |-> r.ret]
        ELSE r

getCurrentOrNextForFamily(m, family, t) ==
    LET current == getCurrentAccountForFamily(m, family)
        m1 == IF current # NoIndex
              THEN [m EXCEPT !.accounts[current + 1] =
                                 clearExpiredRateLimits(m.accounts[current + 1], t)]
              ELSE m
    IN  IF current # NoIndex /\ ~isRateLimitedForFamily(At(m1.accounts, current), family, t)
        THEN [m |-> [m1 EXCEPT !.accounts[current + 1].lastUsed = t], ret |-> current]
        ELSE LET r == getNextForFamily(m1, family, t)
             IN  IF r.ret # NoIndex
                 THEN [m |-> [r.m EXCEPT
                                !.currentAccountIndexByFamily[family] =
                                    At(r.m.accounts, r.ret).index,
                                !.accounts[r.ret + 1].lastSwitchReason = "rate-limit"],
                       ret |-> r.ret]
                 ELSE r

\* mutant: gemini-cli is tried before antigravity
getAvailableHeaderStyle_CliFirst(m, slot, family, t) ==
    LET account == clearExpiredRateLimits(At(m.accounts, slot), t)
        m1 == [m EXCEPT !.accounts[slot + 1] = account]
    IN  IF family = "claude"
        THEN [m |-> m1,
              ret |-> IF isRateLimitedForQuotaKey(account, "claude", t)
                      THEN "null" ELSE "antigravity"]
        ELSE IF ~isRateLimitedForQuotaKey(account, "gemini-cli", t)
        THEN [m |-> m1, ret |-> "gemini-cli"]
        ELSE IF ~isRateLimitedForQuotaKey(account, "gemini-antigravity", t)
        THEN [m |-> m1, ret |-> "antigravity"]
        ELSE [m |-> m1, ret |-> "null"]

\* getAvailableHeaderStyle(this.accounts[slot], family); "null" for null
getAvailableHeaderStyle(m, slot, family, t) ==
    LET account == clearExpiredRateLimits(At(m.accounts, slot), t)
        m1 == [m EXCEPT !.accounts[slot + 1] = account]
    IN  IF family = "claude"
        THEN [m |-> m1,
              ret |-> IF isRateLimitedForQuotaKey(account, "claude", t)
                      THEN "null" ELSE "antigravity"]
        ELSE IF ~isRateLimitedForQuotaKey(account, "gemini-antigravity", t)
        THEN [m |-> m1, ret |-> "antigravity"]
        ELSE IF ~isRateLimitedForQuotaKey(account, "gemini-cli", t)
        THEN [m |-> m1, ret |-> "gemini-cli"]
        ELSE [m |-> m1, ret |-> "null"]

\* markRateLimited(this.accounts[slot], retryAfterMs, family, headerStyle, requestType, reason)
\* mutant: without a delay the cooldown of reason `unknown` is used whatever the reason
markRateLimited_UnknownCooldown(m, slot, retryAfterMs, family, headerStyle, requestType, reason, t) ==
    LET key == getQuotaKey(family, headerStyle, requestType)
        delay == IF retryAfterMs # Undefined THEN retryAfterMs
                 ELSE RATE_LIMIT_DEFAULTS["unknown"]
    IN  [m |-> [m EXCEPT !.accounts[slot + 1].rateLimitResetTimes[key] = t + delay],
         ret |-> key]

\* mutant: a reset time that lies further ahead is kept
markRateLimited_KeepLonger(m, slot, retryAfterMs, family, headerStyle, requestType, reason, t) ==
    LET key == getQuotaKey(family, headerStyle, requestType)
        delay == IF retryAfterMs # Undefined THEN retryAfterMs
                 ELSE RATE_LIMIT_DEFAULTS[reason]
        old == m.accounts[slot + 1].rateLimitResetTimes[key]
    IN  [m |-> [m EXCEPT !.accounts[slot + 1].rateLimitResetTimes[key] =
                             IF old # Undefined /\ old > t + delay THEN old ELSE t + delay],
         ret |-> key]

markRateLimited(m, slot, retryAfterMs, family, headerStyle, requestType, reason, t) ==
    LET key == getQuotaKey(family, headerStyle, requestType)
        delay == IF retryAfterMs # Undefined THEN retryAfterMs
                 ELSE RATE_LIMIT_DEFAULTS[reason]
    IN  [m |-> [m EXCEPT !.accounts[slot + 1].rateLimitResetTimes[key] = t + delay],
         ret |-> key]

updateAccountTokens(m, slot, accessToken, expiresAt) ==
    [m |-> [m EXCEPT !.accounts[slot + 1].accessToken = accessToken,
                     !.accounts[slot + 1].expiresAt = expiresAt],
     ret |-> TRUE]

\* mutant: an empty pool does not count as all rate-limited
allAccountsRateLimited_SomeAccount(m, family, t) ==
    LET n == Len(m.accounts)
        free == {i \in 1..n : ~isRateLimitedForFamily(m.accounts[i], family, t)}
    IN  [m |-> m, ret |-> (n > 0 /\ free = {})]

\* Array.every stops at the first account that is not rate-limited, so only the
\* accounts up to that one have their expired limits cleared
allAccountsRateLimited(m, family, t) ==
    LET n == Len(m.accounts)
        free == {i \in 1..n : ~isRateLimitedForFamily(m.accounts[i], family, t)}
        stop == IF free = {} THEN n ELSE CHOOSE i \in free : \A j \in free : i <= j
    IN  [m |-> [m EXCEPT !.accounts =
                    [i \in 1..n |-> IF i <= stop
                                    THEN clearExpiredRateLimits(m.accounts[i], t)
                                    ELSE m.accounts[i]]],
         ret |-> (free = {})]

\* Math.min(...waitTimes) of a non-empty collection
MinOf(S) == CHOOSE x \in S : \A y \in S : x <= y

\* mutant: the subtraction is the wrong way round
AccountWaitTimes_Swapped(account, family, t) ==
    IF family = "claude"
    THEN LET resetTime == account.rateLimitResetTimes["claude"]
         IN  IF resetTime # Undefined THEN {Max(0, t - resetTime)} ELSE {}
    ELSE LET t1 == account.rateLimitResetTimes["gemini-antigravity"]
             t2 == account.rateLimitResetTimes["gemini-cli"]
             finite == (IF t1 # Undefined THEN {Max(0, t - t1)} ELSE {})
                       \cup (IF t2 # Undefined THEN {Max(0, t - t2)} ELSE {})
         IN  IF finite # {} THEN {MinOf(finite)} ELSE {}

\* the entries one account pushes onto waitTimes in getMinWaitTime (none or one)
AccountWaitTimes(account, family, t) ==
    IF family = "claude"
    THEN LET resetTime == account.rateLimitResetTimes["claude"]
         IN  IF resetTime # Undefined THEN {Max(0, resetTime - t)} ELSE {}
    ELSE LET t1 == account.rateLimitResetTimes["gemini-antigravity"]
             t2 == account.rateLimitResetTimes["gemini-cli"]
             \* the finite arguments of Math.min; a missing one is Infinity
             finite == (IF t1 # Undefined THEN {Max(0, t1 - t)} ELSE {})
                       \cup (IF t2 # Undefined THEN {Max(0, t2 - t)} ELSE {})
         IN  IF finite # {} THEN {MinOf(finite)} ELSE {}

getMinWaitTime(m, family, t) ==
    LET waitTimes == UNION {AccountWaitTimes(m.accounts[i], family, t) :
                                i \in 1..Len(m.accounts)}
    IN  [m |-> m, ret |-> IF waitTimes # {} THEN MinOf(waitTimes) ELSE 0]


\* mutant: an existing account is looked up by refresh token only
FindExisting_RefreshOnly(accs, tokens) ==
    LET hits == {i \in 1..Len(accs) : accs[i].refreshToken = tokens.refresh_token}
    IN  IF hits = {} THEN NoIndex ELSE MinOf(hits) - 1

\* slot of the first account addAccount's find() matches, NoIndex when none does
FindExisting(accs, tokens) ==
    LET hits == {i \in 1..Len(accs) :
                    \/ (tokens.email # NoString /\ accs[i].email = tokens.email)
                    \/ accs[i].refreshToken = tokens.refresh_token}
    IN  IF hits = {} THEN NoIndex ELSE MinOf(hits) - 1

\* mutant: the first account of a pool is not made the active one
addAccount_NoActivate(m, tokens, t) ==
    LET existing == FindExisting(m.accounts, tokens)
    IN  IF existing # NoIndex
        THEN [m |-> [m EXCEPT !.accounts[existing + 1].refreshToken = tokens.refresh_token,
                              !.accounts[existing + 1].projectId = tokens.project_id,
                              !.accounts[existing + 1].accessToken = tokens.access_token,
                              !.accounts[existing + 1].expiresAt = tokens.expires_at,
                              !.accounts[existing + 1].email = tokens.email],
              ret |-> existing]
        ELSE LET account == [index |-> Len(m.accounts),
                             email |-> tokens.email,
                             projectId |-> tokens.project_id,
                             refreshToken |-> tokens.refresh_token,
                             accessToken |-> tokens.access_token,
                             expiresAt |-> tokens.expires_at,
                             addedAt |-> t,
                             lastUsed |-> 0,
                             rateLimitResetTimes |-> NoLimits,
                             lastSwitchReason |-> NoString]
                 pushed == Append(m.accounts, account)
             IN  [m |-> [m EXCEPT !.accounts = pushed,
                                  !.currentAccountIndexByFamily =
                                      m.currentAccountIndexByFamily],
                  ret |-> Len(m.accounts)]

addAccount(m, tokens, t) ==
    LET existing == FindExisting(m.accounts, tokens)
    IN  IF existing # NoIndex
        THEN [m |-> [m EXCEPT !.accounts[existing + 1].refreshToken = tokens.refresh_token,
                              !.accounts[existing + 1].projectId = tokens.project_id,
                              !.accounts[existing + 1].accessToken = tokens.access_token,
                              !.accounts[existing + 1].expiresAt = tokens.expires_at,
                              !.accounts[existing + 1].email = tokens.email],
              ret |-> existing]
        ELSE LET account == [index |-> Len(m.accounts),
                             email |-> tokens.email,
                             projectId |-> tokens.project_id,
                             refreshToken |-> tokens.refresh_token,
                             accessToken |-> tokens.access_token,
                             expiresAt |-> tokens.expires_at,
                             addedAt |-> t,
                             lastUsed |-> 0,
                             rateLimitResetTimes |-> NoLimits,
                             lastSwitchReason |-> NoString]
                 pushed == Append(m.accounts, account)
             IN  [m |-> [m EXCEPT !.accounts = pushed,
                                  !.currentAccountIndexByFamily =
                                      IF Len(pushed) = 1
                                      THEN [f \in ModelFamily |-> 0]
                                      ELSE m.currentAccountIndexByFamily],
                  ret |-> Len(m.accounts)]

\* accounts.splice(index, 1)
Splice(accs, index) ==
    [i \in 1..(Len(accs) - 1) |-> IF i <= index THEN accs[i] ELSE accs[i + 1]]

\* mutant: the remaining accounts keep the index they had
removeAccount_NoReindex(m, index) ==
    IF index < 0 \/ index >= Len(m.accounts)
    THEN [m |-> m, ret |-> FALSE]
    ELSE LET spliced == Splice(m.accounts, index)
             adjust(p) == Min(IF p >= index THEN Max(0, p - 1) ELSE p,
                              Len(spliced) - 1)
         IN  IF Len(spliced) = 0
             THEN [m |-> [accounts |-> spliced, cursor |-> 0,
                          currentAccountIndexByFamily |-> [f \in ModelFamily |-> NoIndex]],
                   ret |-> TRUE]
             ELSE [m |-> [accounts |-> spliced,
                          cursor |-> Min(m.cursor, Len(spliced) - 1),
                          currentAccountIndexByFamily |->
                              [f \in ModelFamily |->
                                  adjust(m.currentAccountIndexByFamily[f])]],
                   ret |-> TRUE]

\* mutant: the range test lets the index one past the end through
removeAccount_PastEnd(m, index) ==
    IF index < 0 \/ index > Len(m.accounts) \/ Len(m.accounts) = 0
    THEN [m |-> m, ret |-> FALSE]
    ELSE LET spliced == [i \in 1..(Len(m.accounts) - 1) |->
                            IF i <= index THEN m.accounts[i] ELSE m.accounts[i + 1]]
             reindexed == [i \in 1..Len(spliced) |-> [spliced[i] EXCEPT !.index = i - 1]]
         IN  [m |-> [m EXCEPT !.accounts = reindexed,
                              !.cursor = Min(m.cursor, Max(0, Len(reindexed) - 1))],
              ret |-> TRUE]

\* mutant: only the pointers after the removed index are moved down
removeAccount_After(m, index) ==
    IF index < 0 \/ index >= Len(m.accounts)
    THEN [m |-> m, ret |-> FALSE]
    ELSE LET spliced == Splice(m.accounts, index)
             reindexed == [i \in 1..Len(spliced) |-> [spliced[i] EXCEPT !.index = i - 1]]
             adjust(p) == Min(IF p > index THEN Max(0, p - 1) ELSE p,
                              Len(reindexed) - 1)
         IN  IF Len(reindexed) = 0
             THEN [m |-> [accounts |-> reindexed, cursor |-> 0,
                          currentAccountIndexByFamily |-> [f \in ModelFamily |-> NoIndex]],
                   ret |-> TRUE]
             ELSE [m |-> [accounts |-> reindexed,
                          cursor |-> Min(m.cursor, Len(reindexed) - 1),
                          currentAccountIndexByFamily |->
                              [f \in ModelFamily |->
                                  adjust(m.currentAccountIndexByFamily[f])]],
                   ret |-> TRUE]

removeAccount(m, index) ==
    IF index < 0 \/ index >= Len(m.accounts)
    THEN [m |-> m, ret |-> FALSE]
    ELSE LET spliced == Splice(m.accounts, index)
             reindexed == [i \in 1..Len(spliced) |-> [spliced[i] EXCEPT !.index = i - 1]]
             adjust(p) == Min(IF p >= index THEN Max(0, p - 1) ELSE p,
                              Len(reindexed) - 1)
         IN  IF Len(reindexed) = 0
             THEN [m |-> [accounts |-> reindexed, cursor |-> 0,
                          currentAccountIndexByFamily |-> [f \in ModelFamily |-> NoIndex]],
                   ret |-> TRUE]
             ELSE [m |-> [accounts |-> reindexed,
                          cursor |-> Min(m.cursor, Len(reindexed) - 1),
                          currentAccountIndexByFamily |->
                              [f \in ModelFamily |->
                                  adjust(m.currentAccountIndexByFamily[f])]],
                   ret |-> TRUE]

\* a stored account's rateLimitResetTimes when the field is undefined
NoObject == <<>>
\* x || {}
orEmpty(x) == IF x = NoObject THEN NoLimits ELSE x

\* mutant: a stored pointer is only made non-negative
loadFromStorage_NoWrap(m, data) ==
    IF data.isNull \/ Len(data.accounts) = 0
    THEN [m |-> [accounts |-> <<>>, cursor |-> 0,
                 currentAccountIndexByFamily |-> [f \in ModelFamily |-> NoIndex]],
          ret |-> TRUE]
    ELSE LET loaded == [i \in 1..Len(data.accounts) |->
                          [index |-> i - 1,
                           email |-> data.accounts[i].email,
                           projectId |-> data.accounts[i].projectId,
                           refreshToken |-> data.accounts[i].refreshToken,
                           accessToken |-> NoString,
                           expiresAt |-> Undefined,
                           addedAt |-> data.accounts[i].addedAt,
                           lastUsed |-> data.accounts[i].lastUsed,
                           rateLimitResetTimes |-> orEmpty(data.accounts[i].rateLimitResetTimes),
                           lastSwitchReason |-> NoString]]
             stored(f) == IF data.activeIndexByFamily[f] = Undefined
                          THEN 0 ELSE data.activeIndexByFamily[f]
             clamp(f) == Max(0, stored(f))
         IN  [m |-> [accounts |-> loaded,
                     cursor |-> clamp("claude"),
                     currentAccountIndexByFamily |-> [f \in ModelFamily |-> clamp(f)]],
              ret |-> TRUE]

\* data is null (data.isNull) or an AccountStorageData; a missing
\* activeIndexByFamily entry is Undefined (x ?? 0)
loadFromStorage(m, data) ==
    IF data.isNull \/ Len(data.accounts) = 0
    THEN [m |-> [accounts |-> <<>>, cursor |-> 0,
                 currentAccountIndexByFamily |-> [f \in ModelFamily |-> NoIndex]],
          ret |-> TRUE]
    ELSE LET loaded == [i \in 1..Len(data.accounts) |->
                          [index |-> i - 1,
                           email |-> data.accounts[i].email,
                           projectId |-> data.accounts[i].projectId,
                           refreshToken |-> data.accounts[i].refreshToken,
                           accessToken |-> NoString,
                           expiresAt |-> Undefined,
                           addedAt |-> data.accounts[i].addedAt,
                           lastUsed |-> data.accounts[i].lastUsed,
                           rateLimitResetTimes |-> orEmpty(data.accounts[i].rateLimitResetTimes),
                           lastSwitchReason |-> NoString]]
             stored(f) == IF data.activeIndexByFamily[f] = Undefined
                          THEN 0 ELSE data.activeIndexByFamily[f]
             clamp(f) == Max(0, stored(f)) % Max(1, Len(loaded))
         IN  [m |-> [accounts |-> loaded,
                     cursor |-> clamp("claude"),
                     currentAccountIndexByFamily |-> [f \in ModelFamily |-> clamp(f)]],
              ret |-> TRUE]

\* mutant: the recorded rate limits are left out of the snapshot
toStorageData_WithoutLimits(m) ==
    [isNull |-> FALSE,
     accounts |-> [i \in 1..Len(m.accounts) |->
                     [email |-> m.accounts[i].email,
                      projectId |-> m.accounts[i].projectId,
                      refreshToken |-> m.accounts[i].refreshToken,
                      addedAt |-> m.accounts[i].addedAt,
                      lastUsed |-> m.accounts[i].lastUsed,
                      rateLimitResetTimes |-> NoObject]],
     activeIndexByFamily |->
         [f \in ModelFamily |-> Max(0, m.currentAccountIndexByFamily[f])]]

\* the AccountStorageData of the manager (version: 1 is not modelled, nothing
\* reads it); an account without a recorded key is stored without the field
toStorageData(m) ==
    [isNull |-> FALSE,
     accounts |-> [i \in 1..Len(m.accounts) |->
                     [email |-> m.accounts[i].email,
                      projectId |-> m.accounts[i].projectId,
                      refreshToken |-> m.accounts[i].refreshToken,
                      addedAt |-> m.accounts[i].addedAt,
                      lastUsed |-> m.accounts[i].lastUsed,
                      rateLimitResetTimes |->
                          IF \E key \in QuotaKey :
                                 m.accounts[i].rateLimitResetTimes[key] # Undefined
                          THEN m.accounts[i].rateLimitResetTimes
                          ELSE NoObject]],
     activeIndexByFamily |->
         [f \in ModelFamily |-> Max(0, m.currentAccountIndexByFamily[f])]]


(***************************************************************************)
(* Inputs of the actions.                                                  *)
(***************************************************************************)
Slots == 0..(Len(accounts) - 1)
\* explicit retry delays (retryAfterMs), in clock ticks
Delays == {1, 2}

\* request kinds handed to markRateLimited: omitted, text, image generation
RequestInputs == {"undefined", "gemini", "image_gen"}

\* OAuth tokens handed to addAccount
RefreshTokens == {"r1", "r2", "r3"}
TokenInputs ==
    [email : {NoString}, refresh_token : RefreshTokens, project_id : {"p"},
     access_token : {"at"}, expires_at : {MaxTime + 1}]
\* credentials of a sign-in: with or without an email, and with a project the
\* stored accounts do not have
Credentials ==
    [email : {NoString, "e1"}, refresh_token : RefreshTokens, project_id : {"p2"},
     access_token : {"at"}, expires_at : {MaxTime + 1}]

\* snapshots handed to loadFromStorage: the first n stored accounts of a fixed
\* list, with any stored pointers (missing, in range, out of range)
StoredAccount(i, limits) ==
    [email |-> NoString, projectId |-> "p",
     refreshToken |-> IF i = 1 THEN "r1" ELSE IF i = 2 THEN "r2" ELSE "r3",
     addedAt |-> 0, lastUsed |-> 0, rateLimitResetTimes |-> limits]
\* a stored pointer: missing, in range, or out of range
StoredPointers == {Undefined} \cup 0..MaxAccounts
NullData ==
    [isNull |-> TRUE, accounts |-> <<>>,
     activeIndexByFamily |-> [claude |-> Undefined, gemini |-> Undefined]]
Snapshot(n, pc, pg) ==
    [isNull |-> FALSE,
     accounts |-> [i \in 1..n |-> StoredAccount(i, NoLimits)],
     activeIndexByFamily |-> [claude |-> pc, gemini |-> pg]]
Snapshots ==
    {NullData} \cup
    {Snapshot(n, pc, pg) : n \in 0..MaxAccounts, pc \in StoredPointers, pg \in StoredPointers}
\* the snapshots a manager starts from in Spec: any stored claude pointer (the
\* cursor starts there too), no stored gemini pointer
StartSnapshots ==
    {NullData} \cup {Snapshot(n, pc, Undefined) : n \in 0..MaxAccounts, pc \in StoredPointers}

\* the largest pool the account-lifecycle actions build: one account more than
\* the pools the rate-limit specifications start from
MaxPool == MaxAccounts + 1
\* a stored pointer: missing, negative, in range, or at or beyond the pool size
PoolPointers == {Undefined, -2} \cup 0..(MaxPool + 1)
\* snapshots handed to loadFromStorage at run time; the first stored account
\* carries a recorded rate limit
PoolSnapshot(n, pc, pg) ==
    [isNull |-> FALSE,
     accounts |-> [i \in 1..n |->
                     StoredAccount(i, IF i = 1
                                      THEN [NoLimits EXCEPT !["claude"] = MaxTime + 2]
                                      ELSE NoLimits)],
     activeIndexByFamily |-> [claude |-> pc, gemini |-> pg]]
PoolSnapshots ==
    {NullData} \cup
    {PoolSnapshot(n, pc, pg) : n \in 0..MaxPool, pc \in PoolPointers, pg \in PoolPointers}

\* the manager's fields become those a method call r leaves
Set(r) ==
    /\ accounts' = r.m.accounts
    /\ cursor' = r.m.cursor
    /\ currentAccountIndexByFamily' = r.m.currentAccountIndexByFamily

\* the fields after `new AccountManager()`
New ==
    [accounts |-> <<>>, cursor |-> 0,
     currentAccountIndexByFamily |-> [f \in ModelFamily |-> NoIndex]]

(***************************************************************************)
(* One action per method of AccountManager.                                *)
(***************************************************************************)
LoadFromStorage ==
    \E data \in PoolSnapshots :
        /\ Set(loadFromStorage(Mgr, data))
        /\ UNCHANGED <<now, marks, callers>>

AddAccount ==
    \E tokens \in TokenInputs :
        LET r == addAccount(Mgr, tokens, now)
        IN  /\ Len(r.m.accounts) <= MaxPool
            /\ Set(r)
            /\ UNCHANGED <<now, marks, callers>>

\* addAccount with the credentials of a sign-in
AddCredential ==
    \E tokens \in Credentials :
        LET r == addAccount(Mgr, tokens, now)
        IN  /\ Len(r.m.accounts) <= MaxPool
            /\ Set(r)
            /\ UNCHANGED <<now, marks, callers>>

RemoveAccount ==
    \E index \in -1..MaxPool :
        LET r == removeAccount(Mgr, index)
        IN  /\ Set(r)
            /\ UNCHANGED <<now, marks, callers>>

UpdateAccountTokens ==
    \E slot \in Slots :
        /\ Set(updateAccountTokens(Mgr, slot, "at2", MaxTime + 2))
        /\ UNCHANGED <<now, marks, callers>>

GetCurrentOrNextForFamily ==
    \E family \in ModelFamily :
        LET r == getCurrentOrNextForFamily(Mgr, family, now)
        IN  /\ Set(r)
            /\ UNCHANGED <<now, marks, callers>>

GetAvailableHeaderStyle ==
    \E slot \in Slots, family \in ModelFamily :
        LET r == getAvailableHeaderStyle(Mgr, slot, family, now)
        IN  /\ Set(r)
            /\ UNCHANGED <<now, marks, callers>>

MarkRateLimited ==
    \E slot \in Slots, retryAfterMs \in Delays, family \in ModelFamily,
       headerStyle \in HeaderStyle, requestType \in RequestInputs :
        LET r == markRateLimited(Mgr, slot, retryAfterMs, family, headerStyle,
                                 requestType, "unknown", now)
        IN  /\ marks < MaxMarks
            /\ marks' = marks + 1
            /\ Set(r)
            /\ UNCHANGED <<now, callers>>

AllAccountsRateLimited ==
    \E family \in ModelFamily :
        LET r == allAccountsRateLimited(Mgr, family, now)
        IN  /\ Set(r)
            /\ UNCHANGED <<now, marks, callers>>

GetMinWaitTime ==
    \E family \in ModelFamily :
        LET r == getMinWaitTime(Mgr, family, now)
        IN  /\ Set(r)
            /\ UNCHANGED <<now, marks, callers>>

\* Date.now() advances
Tick ==
    /\ now < MaxTime
    /\ now' = now + 1
    /\ UNCHANGED <<accounts, cursor, currentAccountIndexByFamily, marks, callers>>

(***************************************************************************)
(* Spec: rate limiting and rotation on a pool loaded at start-up.          *)
(***************************************************************************)
\* a manager constructed and loaded from one of `snapshots`, at time 0
Loaded(snapshots) ==
    /\ \E data \in snapshots :
          LET r == loadFromStorage(New, data)
          IN  /\ accounts = r.m.accounts
              /\ cursor = r.m.cursor
              /\ currentAccountIndexByFamily = r.m.currentAccountIndexByFamily
    /\ now = 0
    /\ marks = 0

\* request flows: each is idle, or holds the account it acquired for a family
\* while its request is in flight
FlowIds == {1, 2}
Idle == [pc |-> "idle", family |-> "none", account |-> NoIndex]

Init ==
    /\ Loaded(StartSnapshots)
    /\ flows = [p \in FlowIds |-> Idle]
    /\ visited = <<>>
    /\ InitResolver
    /\ InitWire

Next ==
    \/ GetCurrentOrNextForFamily
    \/ GetAvailableHeaderStyle
    \/ MarkRateLimited
    \/ AllAccountsRateLimited
    \/ GetMinWaitTime
    \/ Tick

Spec == Init /\ [][Next]_vars


(***************************************************************************)
(* Vocabulary of the claims, from the words of the specification: a quota  *)
(* key is rate-limited at time t when a reset time is recorded for it and  *)
(* t is strictly before it; family A (claude) is blocked by its single     *)
(* key, family B (gemini) only by both header-style keys together.         *)
(***************************************************************************)
KeyBlockedAt(account, key, t) ==
    /\ account.rateLimitResetTimes[key] # Undefined
    /\ t < account.rateLimitResetTimes[key]

FamilyBlockedAt(account, family, t) ==
    \/ family = "claude" /\ KeyBlockedAt(account, "claude", t)
    \/ /\ family = "gemini"
       /\ KeyBlockedAt(account, "gemini-antigravity", t)
       /\ KeyBlockedAt(account, "gemini-cli", t)

OtherFamily(family) == IF family = "claude" THEN "gemini" ELSE "claude"

\* what acquireForFamily(family) does in the current state
Acquire(family) == getCurrentOrNextForFamily(Mgr, family, now)

(***************************************************************************)
(* C1: acquireForFamily(f) returns null only when every account of the    *)
(* pool is rate-limited for f: whenever some account is not rate-limited   *)
(* for f it returns an account of the pool, and the account it returns is  *)
(* not rate-limited for f at the time of the return.                       *)
(***************************************************************************)
C1_AcquireNullOnlyWhenExhausted ==
    \A family \in ModelFamily :
        LET r == Acquire(family)
        IN  /\ (\E i \in 1..Len(accounts) : ~FamilyBlockedAt(accounts[i], family, now))
                  => r.ret # NoIndex
            /\ r.ret # NoIndex =>
                  /\ InRange(r.m.accounts, r.ret)
                  /\ ~FamilyBlockedAt(At(accounts, r.ret), family, now)
                  /\ ~FamilyBlockedAt(At(r.m.accounts, r.ret), family, now)

\* the current account is rate-limited and the call rotates to another one
C1_Witness ==
    \E family \in ModelFamily :
        LET current == currentAccountIndexByFamily[family]
            r == Acquire(family)
        IN  /\ InRange(accounts, current)
            /\ FamilyBlockedAt(At(accounts, current), family, now)
            /\ r.ret # NoIndex
            /\ r.ret # current
            /\ \E i \in 1..Len(accounts) : accounts[i].lastSwitchReason = "rate-limit"


(***************************************************************************)
(* C3: family-B blocking.  acquireForFamily(gemini) passes over an account *)
(* exactly when both of its header-style keys are rate-limited: an account *)
(* limited on one style only stays a candidate, is kept when it is the     *)
(* current account and is chosen when it is the only candidate.  A         *)
(* family-A account is passed over as soon as its single key is limited.   *)
(***************************************************************************)
C3_FamilyBBlockedOnlyByBothStyles ==
    LET rb == Acquire("gemini")
        ra == Acquire("claude")
        bothStyles(a) == /\ KeyBlockedAt(a, "gemini-antigravity", now)
                         /\ KeyBlockedAt(a, "gemini-cli", now)
        candidates == {i \in Slots : ~bothStyles(At(accounts, i))}
        listed == {AvailableSlots(accounts, "gemini", now)[j] :
                      j \in 1..Len(AvailableSlots(accounts, "gemini", now))}
    IN  /\ listed = candidates
        /\ \A i \in Slots :
              /\ bothStyles(At(accounts, i)) => rb.ret # i
              /\ (~bothStyles(At(accounts, i))
                  /\ (currentAccountIndexByFamily["gemini"] = i \/ candidates = {i}))
                    => rb.ret = i
              /\ KeyBlockedAt(At(accounts, i), "claude", now) => ra.ret # i

\* the current gemini account is limited on exactly one header style, and the
\* call still returns it
C3_Witness ==
    \E i \in Slots :
        /\ currentAccountIndexByFamily["gemini"] = i
        /\ KeyBlockedAt(At(accounts, i), "gemini-antigravity", now)
            # KeyBlockedAt(At(accounts, i), "gemini-cli", now)
        /\ Len(accounts) > 1
        /\ Acquire("gemini").ret = i

(***************************************************************************)
(* C5: when the family's current account is not rate-limited for the      *)
(* family, acquireForFamily(f) returns it and leaves both pointers and the *)
(* cursor as they were; f's pointer changes only when the current account  *)
(* is rate-limited for f, and then to the returned account; the other      *)
(* family's pointer never changes.                                         *)
(***************************************************************************)
C5_AcquireKeepsUnblockedCurrent ==
    \A family \in ModelFamily :
        LET r == Acquire(family)
            current == currentAccountIndexByFamily[family]
            after == r.m.currentAccountIndexByFamily
        IN  /\ (InRange(accounts, current)
                /\ ~FamilyBlockedAt(At(accounts, current), family, now))
                  => /\ r.ret = current
                     /\ after = currentAccountIndexByFamily
                     /\ r.m.cursor = cursor
            /\ after[family] # current
                  => /\ InRange(accounts, current)
                     /\ FamilyBlockedAt(At(accounts, current), family, now)
                     /\ after[family] = r.ret
            /\ after[OtherFamily(family)] = currentAccountIndexByFamily[OtherFamily(family)]

\* after a rotation for one family only (the pointers differ, the cursor has
\* advanced), the new current account is not rate-limited and is returned again
C5_Witness ==
    \E family \in ModelFamily :
        LET current == currentAccountIndexByFamily[family]
        IN  /\ InRange(accounts, current)
            /\ At(accounts, current).lastSwitchReason = "rate-limit"
            /\ current # currentAccountIndexByFamily[OtherFamily(family)]
            /\ cursor > 0
            /\ ~FamilyBlockedAt(At(accounts, current), family, now)
            /\ Acquire(family).ret = current


(***************************************************************************)
(* SpecMark: rate-limit reports applied to a loaded pool, nothing else.    *)
(***************************************************************************)
NextMark ==
    \/ MarkRateLimited

SpecMark == Init /\ [][NextMark]_vars

(***************************************************************************)
(* C7: markRateLimited(account, delay, family, headerStyle, requestKind,   *)
(* reason) writes exactly one quota key of exactly the given account:      *)
(* family A the family-A key; family B with request kind image generation  *)
(* the image key whatever the header style; family B otherwise the key of  *)
(* the header style.  Every other key of the account, every other account, *)
(* both pointers and the cursor stay as they were, so the account remains  *)
(* as usable on its other keys as before.                                  *)
(***************************************************************************)
KeyOfClaim(family, headerStyle, requestType) ==
    CASE family = "claude" -> "claude"
      [] family = "gemini" /\ requestType = "image_gen" -> "gemini-image"
      [] family = "gemini" /\ requestType # "image_gen" /\ headerStyle = "antigravity"
            -> "gemini-antigravity"
      [] family = "gemini" /\ requestType # "image_gen" /\ headerStyle = "gemini-cli"
            -> "gemini-cli"

C7_MarkWritesExactlyOneKey ==
    \A slot \in Slots, delay \in Delays, family \in ModelFamily,
       headerStyle \in HeaderStyle, requestType \in RequestType, reason \in RateLimitReason :
        LET r == markRateLimited(Mgr, slot, delay, family, headerStyle, requestType,
                                 reason, now)
            key == KeyOfClaim(family, headerStyle, requestType)
            before == At(accounts, slot)
            after == At(r.m.accounts, slot)
        IN  /\ after.rateLimitResetTimes[key] = now + delay
            /\ \A k \in QuotaKey \ {key} :
                  after.rateLimitResetTimes[k] = before.rateLimitResetTimes[k]
            /\ after = [before EXCEPT !.rateLimitResetTimes = after.rateLimitResetTimes]
            /\ Len(r.m.accounts) = Len(accounts)
            /\ \A i \in Slots \ {slot} : At(r.m.accounts, i) = At(accounts, i)
            /\ r.m.currentAccountIndexByFamily = currentAccountIndexByFamily
            /\ r.m.cursor = cursor

\* an account was marked on its image key and on one header style: the other
\* header style is still free, and the account is still handed out for family B
C7_Witness ==
    \E i \in Slots :
        /\ marks = 2
        /\ KeyBlockedAt(At(accounts, i), "gemini-image", now)
        /\ KeyBlockedAt(At(accounts, i), "gemini-antigravity", now)
        /\ At(accounts, i).rateLimitResetTimes["gemini-cli"] = Undefined
        /\ At(accounts, i).rateLimitResetTimes["claude"] = Undefined
        /\ getAvailableHeaderStyle(Mgr, i, "gemini", now).ret = "gemini-cli"
        /\ Acquire("gemini").ret = i
        /\ Acquire("claude").ret = i

(***************************************************************************)
(* SpecExpiry: the life of a rate limit.  Limits are recorded, time        *)
(* passes, and getAvailableHeaderStyle evicts the expired entries of the   *)
(* account it is asked about.                                              *)
(***************************************************************************)
NextExpiry ==
    \/ MarkRateLimited
    \/ GetAvailableHeaderStyle
    \/ Tick

SpecExpiry == Init /\ [][NextExpiry]_vars

(***************************************************************************)
(* C8: headerStyleFor(account, family).  Family A: the single style        *)
(* (antigravity) when the family-A key is not rate-limited, null           *)
(* otherwise.  Family B: antigravity whenever the antigravity key is not   *)
(* rate-limited, gemini-cli when antigravity is rate-limited and           *)
(* gemini-cli is not, null exactly when both are rate-limited.             *)
(***************************************************************************)
C8_HeaderStyleFor ==
    \A slot \in Slots :
        LET a == At(accounts, slot)
            x == KeyBlockedAt(a, "gemini-antigravity", now)
            y == KeyBlockedAt(a, "gemini-cli", now)
            styleA == getAvailableHeaderStyle(Mgr, slot, "claude", now).ret
            styleB == getAvailableHeaderStyle(Mgr, slot, "gemini", now).ret
        IN  /\ styleA = (IF KeyBlockedAt(a, "claude", now) THEN "null" ELSE "antigravity")
            /\ ~x => styleB = "antigravity"
            /\ (x /\ ~y) => styleB = "gemini-cli"
            /\ (styleB = "null") <=> (x /\ y)

\* an account limited on antigravity only falls back to gemini-cli
C8_Witness ==
    \E slot \in Slots :
        /\ KeyBlockedAt(At(accounts, slot), "gemini-antigravity", now)
        /\ ~KeyBlockedAt(At(accounts, slot), "gemini-cli", now)
        /\ getAvailableHeaderStyle(Mgr, slot, "gemini", now).ret = "gemini-cli"
        /\ getAvailableHeaderStyle(Mgr, slot, "claude", now).ret = "antigravity"


(***************************************************************************)
(* C9: minWaitMs(family) is the minimum, over all accounts of the pool, of *)
(* each account's wait time; an account with no recorded limit for the     *)
(* family contributes zero wait, and a family-B account's wait is the      *)
(* minimum of the waits of its two header-style keys.                      *)
(***************************************************************************)
KeyWaitOfClaim(account, key) ==
    IF account.rateLimitResetTimes[key] = Undefined
    THEN 0
    ELSE Max(0, account.rateLimitResetTimes[key] - now)

AccountWaitOfClaim(account, family) ==
    IF family = "claude"
    THEN KeyWaitOfClaim(account, "claude")
    ELSE Min(KeyWaitOfClaim(account, "gemini-antigravity"),
             KeyWaitOfClaim(account, "gemini-cli"))

C9_MinWaitIsMinOverAllAccounts ==
    \A family \in ModelFamily :
        Len(accounts) > 0 =>
            getMinWaitTime(Mgr, family, now).ret =
                MinOf({AccountWaitOfClaim(accounts[i], family) : i \in 1..Len(accounts)})

(***************************************************************************)
(* C10: pool exhaustion is recoverable by backing off minWaitMs.  Whenever *)
(* acquireForFamily(f) returns null on a non-empty pool, minWaitMs(f) is   *)
(* strictly positive, and once that many milliseconds have elapsed with no *)
(* further markRateLimited, acquireForFamily(f) returns an account.        *)
(***************************************************************************)
C10_ExhaustionRecoversAfterMinWait ==
    \A family \in ModelFamily :
        LET r == Acquire(family)
            wait == getMinWaitTime(r.m, family, now).ret
            retry == getCurrentOrNextForFamily(r.m, family, now + wait)
        IN  (Len(accounts) > 0 /\ r.ret = NoIndex) =>
                /\ wait > 0
                /\ retry.ret # NoIndex
                /\ ~FamilyBlockedAt(At(retry.m.accounts, retry.ret), family, now + wait)
                \* not a moment earlier than needed: just before, the pool is still exhausted
                /\ getCurrentOrNextForFamily(r.m, family, now + wait - 1).ret = NoIndex

\* a pool of two accounts is exhausted for family A, with different reset times
C10_Witness ==
    /\ Len(accounts) = 2
    /\ Acquire("claude").ret = NoIndex
    /\ accounts[1].rateLimitResetTimes["claude"] # accounts[2].rateLimitResetTimes["claude"]
    /\ getMinWaitTime(Mgr, "claude", now).ret > 0


(***************************************************************************)
(* C4: per account and per quota key there are two states, available and   *)
(* rate-limited.  A key with reset time T is rate-limited at every time    *)
(* strictly before T and is treated as absent at every time at or after T  *)
(* (a timestamp <= now is expired).  A key becomes rate-limited only       *)
(* through markRateLimited on that key: no other operation of the pool     *)
(* (addOrUpdate, remove of another account, acquireForFamily,              *)
(* headerStyleFor, allRateLimited, minWaitMs, token update) makes an       *)
(* unexpired key available or an available key rate-limited.               *)
(***************************************************************************)
\* times from now on at which the state of a key is compared
Horizon == now..(MaxTime + 3)

\* account b has, from now on, the rate-limit state of account a under every key
SameLimits(a, b) ==
    \A key \in QuotaKey, t \in Horizon : KeyBlockedAt(b, key, t) <=> KeyBlockedAt(a, key, t)

\* the pool `after` holds the accounts of the current pool, slot by slot
PoolKeepsLimits(after) ==
    /\ Len(after) = Len(accounts)
    /\ \A i \in 1..Len(accounts) : SameLimits(accounts[i], after[i])

C4_OnlyMarkAndExpiryChangeAKey ==
    /\ \A i \in Slots, key \in QuotaKey, t \in Horizon :
          LET a == At(accounts, i)
          IN  \* the code's test of a key, and what lazy eviction leaves of it
              /\ isRateLimitedForQuotaKey(a, key, t) <=> KeyBlockedAt(a, key, t)
              /\ clearExpiredRateLimits(a, t).rateLimitResetTimes[key] =
                    (IF KeyBlockedAt(a, key, t) THEN a.rateLimitResetTimes[key]
                     ELSE Undefined)
    /\ \A family \in ModelFamily :
          /\ PoolKeepsLimits(Acquire(family).m.accounts)
          /\ PoolKeepsLimits(allAccountsRateLimited(Mgr, family, now).m.accounts)
          /\ PoolKeepsLimits(getMinWaitTime(Mgr, family, now).m.accounts)
          /\ \A i \in Slots :
                PoolKeepsLimits(getAvailableHeaderStyle(Mgr, i, family, now).m.accounts)
    /\ \A i \in Slots :
          /\ PoolKeepsLimits(updateAccountTokens(Mgr, i, "at2", MaxTime + 2).m.accounts)
          \* remove(i): the accounts before i keep their slot, those after move down
          /\ LET after == removeAccount(Mgr, i).m.accounts
             IN  /\ Len(after) = Len(accounts) - 1
                 /\ \A j \in Slots \ {i} :
                       SameLimits(At(accounts, j), At(after, IF j < i THEN j ELSE j - 1))
    /\ \A tokens \in TokenInputs :
          LET r == addAccount(Mgr, tokens, now)
          IN  /\ \A i \in Slots : SameLimits(At(accounts, i), At(r.m.accounts, i))
              \* an appended account starts available under every key
              /\ \A i \in 0..(Len(r.m.accounts) - 1) \ Slots :
                    \A key \in QuotaKey, t \in Horizon :
                        ~KeyBlockedAt(At(r.m.accounts, i), key, t)

\* one account holds an expired entry that was not evicted yet beside an
\* unexpired one, in a pool of several accounts
C4_Witness ==
    \E i \in Slots, k1 \in QuotaKey, k2 \in QuotaKey :
        LET a == At(accounts, i)
        IN  /\ a.rateLimitResetTimes[k1] # Undefined
            /\ a.rateLimitResetTimes[k1] <= now
            /\ KeyBlockedAt(a, k2, now)
            /\ Len(accounts) > 1


(***************************************************************************)
(* SpecFlows: concurrent request flows.  A flow acquires an account for a  *)
(* family, performs its request outside the manager, and then reports a    *)
(* rate limit on the account it got, or finishes without reporting.  The   *)
(* calls into the manager are atomic; the flows interleave between them.   *)
(***************************************************************************)
FlowAcquire ==
    \E p \in FlowIds, family \in ModelFamily :
        LET r == getCurrentOrNextForFamily(Mgr, family, now)
        IN  /\ flows[p].pc = "idle"
            /\ Set(r)
            /\ flows' = IF r.ret = NoIndex
                        THEN flows
                        ELSE [flows EXCEPT ![p] = [pc |-> "io", family |-> family,
                                                   account |-> r.ret]]
            /\ UNCHANGED <<now, marks, visited, resolver, wire>>

FlowReport ==
    \E p \in FlowIds, retryAfterMs \in Delays, headerStyle \in HeaderStyle,
       requestType \in RequestInputs :
        /\ flows[p].pc = "io"
        /\ marks < MaxMarks
        /\ marks' = marks + 1
        /\ Set(markRateLimited(Mgr, flows[p].account, retryAfterMs, flows[p].family,
                               headerStyle, requestType, "unknown", now))
        /\ flows' = [flows EXCEPT ![p] = Idle]
        /\ UNCHANGED <<now, visited, resolver, wire>>

FlowFinish ==
    \E p \in FlowIds :
        /\ flows[p].pc = "io"
        /\ flows' = [flows EXCEPT ![p] = Idle]
        /\ UNCHANGED <<accounts, cursor, currentAccountIndexByFamily, now, marks, visited, resolver, wire>>

NextFlows ==
    \/ FlowAcquire
    \/ FlowReport
    \/ FlowFinish
    \/ Tick

SpecFlows == Init /\ [][NextFlows]_vars

(***************************************************************************)
(* C2: in any interleaving of flows that acquire, do their I/O and then    *)
(* mark the account they got, a flow is never handed an account that is    *)
(* rate-limited for its family at the time of the acquisition: once a      *)
(* markRateLimited that blocks account a for family f has been applied, no *)
(* later acquireForFamily(f) returns a before the recorded reset time.     *)
(***************************************************************************)
C2_NoFlowIsHandedABlockedAccount ==
    [][\A p \in FlowIds :
          (flows[p].pc = "idle" /\ flows'[p].pc = "io") =>
              LET a == flows'[p].account
                  f == flows'[p].family
              IN  /\ InRange(accounts, a)
                  /\ ~FamilyBlockedAt(At(accounts, a), f, now)
                  /\ ~FamilyBlockedAt(At(accounts', a), f, now)]_vars

\* two flows hold different accounts for the same family: the account of one was
\* marked rate-limited after it was handed out, and the other flow, acquiring
\* after the mark, was rotated to another account
C2_Witness ==
    \E p \in FlowIds, q \in FlowIds :
        /\ flows[p].pc = "io" /\ flows[q].pc = "io"
        /\ flows[p].family = flows[q].family
        /\ flows[p].account # flows[q].account
        /\ FamilyBlockedAt(At(accounts, flows[p].account), flows[p].family, now)
        /\ ~FamilyBlockedAt(At(accounts, flows[q].account), flows[q].family, now)
        /\ At(accounts, flows[q].account).lastSwitchReason = "rate-limit"
        /\ currentAccountIndexByFamily[flows[q].family] = flows[q].account

(***************************************************************************)
(* SpecRR: the rotation test.  On a freshly loaded pool with no limits,    *)
(* acquire for family B, mark the returned account rate-limited on both    *)
(* header styles, and repeat, once per account of the pool.  Time may pass *)
(* as long as no limit placed by the test expires.                         *)
(***************************************************************************)
InitRR ==
    /\ Loaded(Snapshots)
    /\ flows = [p \in FlowIds |-> Idle]
    /\ visited = <<>>
    /\ InitResolver
    /\ InitWire

\* the test has marked every account it was handed so far
LastMarked == marks = 2 * Len(visited)

RRAcquire ==
    LET r == getCurrentOrNextForFamily(Mgr, "gemini", now)
    IN  /\ Len(visited) < Len(accounts)
        /\ LastMarked
        /\ Set(r)
        /\ visited' = Append(visited, r.ret)
        /\ UNCHANGED <<now, marks, flows, resolver, wire>>

RRMark ==
    \E d1 \in Delays, d2 \in Delays :
        LET slot == visited[Len(visited)]
            r1 == markRateLimited(Mgr, slot, d1, "gemini", "antigravity", "gemini",
                                  "rate_limit_exceeded", now)
            r2 == markRateLimited(r1.m, slot, d2, "gemini", "gemini-cli", "gemini",
                                  "rate_limit_exceeded", now)
        IN  /\ ~LastMarked
            /\ visited[Len(visited)] # NoIndex
            /\ Set(r2)
            /\ marks' = marks + 2
            /\ UNCHANGED <<now, flows, visited, resolver, wire>>

RRTick ==
    /\ \A i \in Slots, key \in QuotaKey :
          KeyBlockedAt(At(accounts, i), key, now) => KeyBlockedAt(At(accounts, i), key, now + 1)
    /\ Tick

NextRR ==
    \/ RRAcquire
    \/ RRMark
    \/ RRTick

SpecRR == InitRR /\ [][NextRR]_vars

(***************************************************************************)
(* C6: round-robin.  With N accounts, all unblocked, N consecutive         *)
(* acquireForFamily calls for family B, each followed by marking the       *)
(* returned account rate-limited, visit each account exactly once before   *)
(* any account repeats.                                                    *)
(***************************************************************************)
C6_RoundRobinVisitsEachAccountOnce ==
    /\ \A k \in 1..Len(visited) :
          /\ InRange(accounts, visited[k])
          /\ \A j \in 1..(k - 1) : visited[j] # visited[k]
    /\ Len(visited) = Len(accounts) => {visited[k] : k \in 1..Len(visited)} = Slots

\* the test has run to its end on a pool of at least two accounts
C6_Witness ==
    /\ Len(accounts) >= 2
    /\ Len(visited) = Len(accounts)
    /\ LastMarked
    /\ \A i \in Slots : FamilyBlockedAt(At(accounts, i), "gemini", now)

(***************************************************************************)
(* SpecCooldown: rate-limit reports that carry no retry delay, header      *)
(* style or request kind, so that the cooldown comes from the reason, on a *)
(* loaded pool while time passes.                                          *)
(***************************************************************************)
MarkRateLimitedByReason ==
    \E slot \in Slots, family \in ModelFamily, reason \in RateLimitReason :
        LET r == markRateLimited(Mgr, slot, Undefined, family, "antigravity",
                                 NoString, reason, now)
        IN  /\ marks < MaxMarks
            /\ marks' = marks + 1
            /\ Set(r)
            /\ UNCHANGED <<now, callers>>

NextCooldown ==
    \/ MarkRateLimitedByReason
    \/ Tick

SpecCooldown == Init /\ [][NextCooldown]_vars

(***************************************************************************)
(* C11: markRateLimited sets the key's reset time to now + retryAfterMs    *)
(* when a delay is given, and otherwise to now + the default cooldown of   *)
(* the reason: quota_exhausted 3,600,000 ms, rate_limit_exceeded 30,000    *)
(* ms, server_error 20,000 ms, unknown 60,000 ms.  In particular reason    *)
(* quota_exhausted with no explicit delay gives a reset time exactly       *)
(* 3,600,000 ms in the future.                                             *)
(***************************************************************************)
CooldownOfClaim(reason) ==
    CASE reason = "quota_exhausted" -> 3600000
      [] reason = "rate_limit_exceeded" -> 30000
      [] reason = "server_error" -> 20000
      [] reason = "unknown" -> 60000

C11_ResetIsNowPlusDelayOrCooldown ==
    \A slot \in Slots, family \in ModelFamily, reason \in RateLimitReason,
       retryAfterMs \in {Undefined, 0} \cup Delays :
        LET r == markRateLimited(Mgr, slot, retryAfterMs, family, "antigravity",
                                 NoString, reason, now)
            written == At(r.m.accounts, slot).rateLimitResetTimes[
                           KeyOfClaim(family, "antigravity", NoString)]
        IN  /\ written = now + (IF retryAfterMs # Undefined THEN retryAfterMs
                                ELSE CooldownOfClaim(reason))
            /\ (retryAfterMs = Undefined /\ reason = "quota_exhausted")
                  => written - now = 3600000

\* after time has passed, an account was marked for quota exhaustion without a
\* delay: its key resets 3,600,000 ms after the time of the report
C11_Witness ==
    \E slot \in Slots, key \in QuotaKey :
        /\ now > 0
        /\ At(accounts, slot).rateLimitResetTimes[key] = now + 3600000
        /\ KeyBlockedAt(At(accounts, slot), key, now)

(***************************************************************************)
(* SpecPool: the life of the pool.  A manager is constructed empty; then   *)
(* snapshots are loaded, accounts are added or updated, tokens are         *)
(* refreshed and accounts are removed, in any order, while requests        *)
(* acquire accounts.                                                       *)
(***************************************************************************)
InitPool ==
    /\ accounts = New.accounts
    /\ cursor = New.cursor
    /\ currentAccountIndexByFamily = New.currentAccountIndexByFamily
    /\ now = 0
    /\ marks = 0
    /\ flows = [p \in FlowIds |-> Idle]
    /\ visited = <<>>
    /\ InitResolver
    /\ InitWire

NextPool ==
    \/ LoadFromStorage
    \/ AddAccount
    \/ RemoveAccount
    \/ UpdateAccountTokens
    \/ GetCurrentOrNextForFamily

SpecPool == InitPool /\ [][NextPool]_vars

(***************************************************************************)
(* Vocabulary of the pool claims: a pointer or the cursor is within bounds *)
(* when it addresses an account of the pool; in an empty pool the pointers *)
(* are -1 (none selected) and the cursor is 0.                             *)
(***************************************************************************)
PointerInBounds(p, size) == IF size = 0 THEN p = -1 ELSE p >= 0 /\ p < size
CursorInBounds(c, size) == IF size = 0 THEN c = 0 ELSE c >= 0 /\ c < size

(***************************************************************************)
(* C12: remove(i) with i in range decrements every family pointer that     *)
(* pointed at or after the removed index, a pointer at 0 staying at 0      *)
(* while accounts remain, and leaves pointers before it unchanged; both    *)
(* pointers and the cursor are within bounds afterwards.  Removing index 1 *)
(* from a 3-account pool whose family-A pointer was 2 yields pointer 1.    *)
(***************************************************************************)
C12_RemoveAdjustsPointers ==
    /\ \A i \in Slots, f \in ModelFamily :
          LET p == currentAccountIndexByFamily[f]
              after == removeAccount(Mgr, i).m
              size == Len(after.accounts)
          IN  /\ size = Len(accounts) - 1
              /\ (p >= i /\ p > 0) => after.currentAccountIndexByFamily[f] = p - 1
              /\ (p >= i /\ p = 0) =>
                    after.currentAccountIndexByFamily[f] = (IF size = 0 THEN -1 ELSE 0)
              /\ p < i => after.currentAccountIndexByFamily[f] = p
              /\ PointerInBounds(after.currentAccountIndexByFamily[f], size)
              /\ CursorInBounds(after.cursor, size)
    /\ (Len(accounts) = 3 /\ currentAccountIndexByFamily["claude"] = 2)
          => removeAccount(Mgr, 1).m.currentAccountIndexByFamily["claude"] = 1

\* the example of the claim: a 3-account pool whose family-A pointer is 2, with
\* the family-B pointer before the removed index 1
C12_Witness ==
    /\ Len(accounts) = 3
    /\ currentAccountIndexByFamily["claude"] = 2
    /\ currentAccountIndexByFamily["gemini"] = 0
    /\ removeAccount(Mgr, 1).m.currentAccountIndexByFamily = [claude |-> 1, gemini |-> 0]
    /\ removeAccount(Mgr, 1).ret = TRUE

\* C12 as stated: every pointer at or after the removed index is decremented
C12_EveryPointerAtOrAfterDecremented ==
    \A i \in Slots, f \in ModelFamily :
        LET p == currentAccountIndexByFamily[f]
            after == removeAccount(Mgr, i).m
        IN  /\ p >= i => after.currentAccountIndexByFamily[f] = p - 1
            /\ p < i => after.currentAccountIndexByFamily[f] = p
            /\ PointerInBounds(after.currentAccountIndexByFamily[f], Len(after.accounts))
            /\ CursorInBounds(after.cursor, Len(after.accounts))

(***************************************************************************)
(* C13: after any sequence of load, addOrUpdate and remove operations the  *)
(* account stored at position i has index i: indices are dense 0..N-1 with *)
(* no gaps or duplicates.  remove deletes exactly the addressed account    *)
(* and keeps the relative order of the others.                             *)
(***************************************************************************)
C13_IndicesAreDense ==
    /\ \A i \in Slots : At(accounts, i).index = i
    /\ \A i \in Slots :
          LET after == removeAccount(Mgr, i).m.accounts
          IN  /\ Len(after) = Len(accounts) - 1
              /\ \A j \in Slots \ {i} :
                    LET k == IF j < i THEN j ELSE j - 1
                    IN  At(after, k) = [At(accounts, j) EXCEPT !.index = k]

\* the middle account of a loaded pool was removed: the last account moved down
C13_Witness ==
    /\ Len(accounts) = 2
    /\ At(accounts, 0).refreshToken = "r1"
    /\ At(accounts, 1).refreshToken = "r3"
    /\ At(accounts, 1).index = 1

(***************************************************************************)
(* C14: remove(i) with i out of range (i < 0 or i >= pool size, including  *)
(* any i on an empty pool) returns false and leaves the accounts, both     *)
(* family pointers and the cursor unchanged.                               *)
(***************************************************************************)
C14_RemoveOutOfRangeIsRefused ==
    \A index \in -2..(MaxPool + 1) :
        (index < 0 \/ index >= Len(accounts)) =>
            LET r == removeAccount(Mgr, index)
            IN  /\ r.ret = FALSE
                /\ r.m.accounts = accounts
                /\ r.m.currentAccountIndexByFamily = currentAccountIndexByFamily
                /\ r.m.cursor = cursor

\* a pool of one account with its pointers set: index 0 is removed, index 1 and
\* index -1 are refused
C14_Witness ==
    /\ Len(accounts) = 1
    /\ currentAccountIndexByFamily = [claude |-> 0, gemini |-> 0]
    /\ removeAccount(Mgr, 0).ret = TRUE
    /\ removeAccount(Mgr, 1).ret = FALSE
    /\ removeAccount(Mgr, -1).ret = FALSE

(***************************************************************************)
(* C15: load(snapshot) replaces the whole pool with the snapshot's         *)
(* accounts, sets the rotation cursor anew, and brings both family         *)
(* pointers into [0, len): a stored pointer already in range is kept, a    *)
(* missing or negative one becomes 0, and one at or beyond len is wrapped  *)
(* into range modulo len when the pool is non-empty.  Both pointers become *)
(* -1 (none selected) when the snapshot is null or has no accounts.        *)
(***************************************************************************)
PointerOfClaim(stored, size) ==
    IF stored = Undefined \/ stored < 0 THEN 0
    ELSE IF stored < size THEN stored
    ELSE stored % size

C15_LoadReplacesPoolAndWrapsPointers ==
    \A data \in PoolSnapshots :
        LET after == loadFromStorage(Mgr, data).m
            size == Len(data.accounts)
        IN  /\ after = loadFromStorage(New, data).m
            /\ Len(after.accounts) = (IF data.isNull THEN 0 ELSE size)
            /\ \A i \in 1..Len(after.accounts) :
                  /\ after.accounts[i].index = i - 1
                  /\ after.accounts[i].refreshToken = data.accounts[i].refreshToken
                  /\ after.accounts[i].email = data.accounts[i].email
                  /\ after.accounts[i].projectId = data.accounts[i].projectId
                  /\ after.accounts[i].addedAt = data.accounts[i].addedAt
                  /\ after.accounts[i].lastUsed = data.accounts[i].lastUsed
                  /\ after.accounts[i].rateLimitResetTimes = data.accounts[i].rateLimitResetTimes
            /\ IF Len(after.accounts) = 0
               THEN /\ after.currentAccountIndexByFamily = [f \in ModelFamily |-> -1]
                    /\ after.cursor = 0
               ELSE /\ \A f \in ModelFamily :
                          /\ after.currentAccountIndexByFamily[f] =
                                PointerOfClaim(data.activeIndexByFamily[f], size)
                          /\ PointerInBounds(after.currentAccountIndexByFamily[f], size)
                    /\ after.cursor = after.currentAccountIndexByFamily["claude"]

\* a pool that was modified is replaced by a snapshot of two accounts whose
\* stored pointers are one at the pool size and one negative
C15_Witness ==
    /\ Len(accounts) = 3
    /\ \E i \in Slots : At(accounts, i).accessToken # NoString
    /\ cursor = 2
    /\ LET after == loadFromStorage(Mgr, PoolSnapshot(2, 2, -2)).m
       IN  /\ Len(after.accounts) = 2
           /\ after.currentAccountIndexByFamily = [claude |-> 0, gemini |-> 0]
           /\ after.cursor = 0
           /\ \A i \in 1..2 : after.accounts[i].accessToken = NoString

\* C15 as stated: a stored pointer at or beyond len is clamped to the last slot
C15_PointerBeyondLenIsClamped ==
    \A data \in PoolSnapshots :
        LET after == loadFromStorage(Mgr, data).m
            size == Len(after.accounts)
        IN  size > 0 =>
                \A f \in ModelFamily :
                    LET stored == data.activeIndexByFamily[f]
                    IN  after.currentAccountIndexByFamily[f] =
                            (IF stored = Undefined \/ stored < 0 THEN 0
                             ELSE IF stored < size THEN stored
                             ELSE size - 1)

(***************************************************************************)
(* SpecAdd: sign-ins.  A pool is loaded from storage, its first account    *)
(* carrying a rate limit; then credentials are added or updated while time *)
(* passes.                                                                 *)
(***************************************************************************)
InitAdd ==
    /\ Loaded({NullData} \cup
              {PoolSnapshot(n, pc, 0) : n \in 0..MaxAccounts, pc \in 0..1})
    /\ flows = [p \in FlowIds |-> Idle]
    /\ visited = <<>>
    /\ InitResolver
    /\ InitWire

NextAdd ==
    \/ AddCredential
    \/ Tick

SpecAdd == InitAdd /\ [][NextAdd]_vars

(***************************************************************************)
(* C16: addOrUpdate(credential).  When an existing account matches by      *)
(* email or by refresh-token equality, the pool size, that account's       *)
(* index, addedAt and rate-limit history and both family pointers are      *)
(* unchanged and only its token fields are overwritten.  Otherwise exactly *)
(* one account is appended, with index equal to the previous pool size and *)
(* an empty rate-limit map, and it becomes the active account of both      *)
(* families if and only if the pool was empty before.                      *)
(***************************************************************************)
MatchesOfClaim(tokens) ==
    {i \in Slots :
        \/ tokens.email # NoString /\ At(accounts, i).email = tokens.email
        \/ At(accounts, i).refreshToken = tokens.refresh_token}

C16_AddUpdatesMatchOrAppends ==
    \A tokens \in Credentials :
        LET r == addAccount(Mgr, tokens, now)
            after == r.m
        IN  IF MatchesOfClaim(tokens) # {}
            THEN /\ r.ret \in MatchesOfClaim(tokens)
                 /\ \A i \in MatchesOfClaim(tokens) : r.ret <= i
                 /\ Len(after.accounts) = Len(accounts)
                 /\ At(after.accounts, r.ret) =
                       [At(accounts, r.ret) EXCEPT !.refreshToken = tokens.refresh_token,
                                                   !.projectId = tokens.project_id,
                                                   !.accessToken = tokens.access_token,
                                                   !.expiresAt = tokens.expires_at,
                                                   !.email = tokens.email]
                 /\ \A i \in Slots \ {r.ret} : At(after.accounts, i) = At(accounts, i)
                 /\ after.currentAccountIndexByFamily = currentAccountIndexByFamily
                 /\ after.cursor = cursor
            ELSE /\ r.ret = Len(accounts)
                 /\ Len(after.accounts) = Len(accounts) + 1
                 /\ \A i \in Slots : At(after.accounts, i) = At(accounts, i)
                 /\ At(after.accounts, r.ret).index = Len(accounts)
                 /\ At(after.accounts, r.ret).rateLimitResetTimes = NoLimits
                 /\ At(after.accounts, r.ret).refreshToken = tokens.refresh_token
                 /\ At(after.accounts, r.ret).email = tokens.email
                 /\ At(after.accounts, r.ret).addedAt = now
                 /\ after.currentAccountIndexByFamily =
                       (IF Len(accounts) = 0 THEN [f \in ModelFamily |-> Len(accounts)]
                        ELSE currentAccountIndexByFamily)
                 /\ after.cursor = cursor

\* the first account carries a rate limit and an email, the current pointers
\* are elsewhere: a credential with that email and a new refresh token updates
\* it, one with another refresh token and no email is appended
C16_Witness ==
    /\ Len(accounts) = 2
    /\ At(accounts, 0).email = "e1"
    /\ At(accounts, 0).refreshToken = "r1"
    /\ At(accounts, 0).rateLimitResetTimes["claude"] # Undefined
    /\ currentAccountIndexByFamily["claude"] = 1
    /\ \E tokens \in Credentials :
          /\ tokens.email = "e1" /\ tokens.refresh_token = "r3"
          /\ addAccount(Mgr, tokens, now).ret = 0
          /\ Len(addAccount(Mgr, tokens, now).m.accounts) = 2
    /\ \E tokens \in Credentials :
          /\ tokens.email = NoString /\ tokens.refresh_token = "r3"
          /\ addAccount(Mgr, tokens, now).ret = 2

\* ---------------------------------------------------------------------------
\* Model resolution (lib/models.ts).  Model ids, patterns and targets are
\* strings; a table (the built-in one and the custom one) is the sequence of
\* its <<key, value>> entries in insertion order, as Object.entries gives them.
\* ---------------------------------------------------------------------------

\* String.prototype.startsWith
startsWith(text, prefix) ==
    /\ Len(prefix) <= Len(text)
    /\ SubSeq(text, 1, Len(prefix)) = prefix

\* String.prototype.endsWith
endsWith(text, suffix) ==
    /\ Len(suffix) <= Len(text)
    /\ SubSeq(text, Len(text) - Len(suffix) + 1, Len(text)) = suffix

\* String.prototype.includes
includes(text, sub) ==
    \E i \in 1..(Len(text) - Len(sub) + 1) : SubSeq(text, i, i + Len(sub) - 1) = sub

\* String.prototype.indexOf for a one-character search string: the 0-based
\* position of its first occurrence, -1 when there is none
indexOf(text, ch) ==
    IF \E i \in 1..Len(text) : SubSeq(text, i, i) = ch
    THEN (CHOOSE i \in 1..Len(text) :
             /\ SubSeq(text, i, i) = ch
             /\ \A j \in 1..(i - 1) : SubSeq(text, j, j) # ch) - 1
    ELSE -1

\* text.slice(start) and text.slice(0, end) with 0-based bounds
sliceFrom(text, start) == SubSeq(text, start + 1, Len(text))
sliceTo(text, end) == SubSeq(text, 1, end)

\* table[key] of a JavaScript object given by its entries: NoString when the
\* key is absent
Lookup(table, key) ==
    IF \E i \in 1..Len(table) : table[i][1] = key
    THEN table[CHOOSE i \in 1..Len(table) : table[i][1] = key][2]
    ELSE NoString

\* JavaScript truthiness of a string-or-undefined value
Truthy(value) == value # NoString /\ value # ""

MODEL_MAPPING ==
    << <<"claude-opus-4-5-thinking", "claude-opus-4-5-thinking">>,
       <<"claude-sonnet-4-5", "claude-sonnet-4-5">>,
       <<"claude-sonnet-4-5-thinking", "claude-sonnet-4-5-thinking">>,
       <<"claude-sonnet-4-5-20250929", "claude-sonnet-4-5-thinking">>,
       <<"claude-3-5-sonnet-20241022", "claude-sonnet-4-5">>,
       <<"claude-3-5-sonnet-20240620", "claude-sonnet-4-5">>,
       <<"claude-opus-4", "claude-opus-4-5-thinking">>,
       <<"claude-opus-4-5-20251101", "claude-opus-4-5-thinking">>,
       <<"claude-haiku-4", "claude-sonnet-4-5">>,
       <<"claude-3-haiku-20240307", "claude-sonnet-4-5">>,
       <<"claude-haiku-4-5-20251001", "claude-sonnet-4-5">>,
       <<"gpt-4", "gemini-2.5-flash">>,
       <<"gpt-4-turbo", "gemini-2.5-flash">>,
       <<"gpt-4-turbo-preview", "gemini-2.5-flash">>,
       <<"gpt-4-0125-preview", "gemini-2.5-flash">>,
       <<"gpt-4-1106-preview", "gemini-2.5-flash">>,
       <<"gpt-4-0613", "gemini-2.5-flash">>,
       <<"gpt-4o", "gemini-2.5-flash">>,
       <<"gpt-4o-2024-05-13", "gemini-2.5-flash">>,
       <<"gpt-4o-2024-08-06", "gemini-2.5-flash">>,
       <<"gpt-4o-mini", "gemini-2.5-flash">>,
       <<"gpt-4o-mini-2024-07-18", "gemini-2.5-flash">>,
       <<"gpt-3.5-turbo", "gemini-2.5-flash">>,
       <<"gpt-3.5-turbo-16k", "gemini-2.5-flash">>,
       <<"gpt-3.5-turbo-0125", "gemini-2.5-flash">>,
       <<"gpt-3.5-turbo-1106", "gemini-2.5-flash">>,
       <<"gpt-3.5-turbo-0613", "gemini-2.5-flash">>,
       <<"gemini-2.5-flash-lite", "gemini-2.5-flash-lite">>,
       <<"gemini-2.5-flash-thinking", "gemini-2.5-flash-thinking">>,
       <<"gemini-3-pro-low", "gemini-3-pro-preview">>,
       <<"gemini-3-pro-high", "gemini-3-pro-preview">>,
       <<"gemini-3-pro-preview", "gemini-3-pro-preview">>,
       <<"gemini-3-pro", "gemini-3-pro-preview">>,
       <<"gemini-2.5-flash", "gemini-2.5-flash">>,
       <<"gemini-3-flash", "gemini-3-flash">>,
       <<"gemini-3-pro-image", "gemini-3-pro-image">>,
       <<"gemini-2.0-flash-exp", "gemini-2.0-flash-exp">> >>

ListedModels ==
    << [id |-> "claude-sonnet-4-5-thinking", baseModel |-> "claude-sonnet-4-5-thinking",
        family |-> "claude", thinking |-> "medium", thinkingBudget |-> 16384, imageOutput |-> FALSE],
       [id |-> "claude-sonnet-4-5-thinking-high", baseModel |-> "claude-sonnet-4-5-thinking",
        family |-> "claude", thinking |-> "high", thinkingBudget |-> 32768, imageOutput |-> FALSE],
       [id |-> "claude-sonnet-4-5-thinking-low", baseModel |-> "claude-sonnet-4-5-thinking",
        family |-> "claude", thinking |-> "low", thinkingBudget |-> 8192, imageOutput |-> FALSE],
       [id |-> "claude-sonnet-4-5", baseModel |-> "claude-sonnet-4-5",
        family |-> "claude", thinking |-> "none", thinkingBudget |-> Undefined, imageOutput |-> FALSE],
       [id |-> "claude-opus-4-5-thinking", baseModel |-> "claude-opus-4-5-thinking",
        family |-> "claude", thinking |-> "medium", thinkingBudget |-> 16384, imageOutput |-> FALSE],
       [id |-> "claude-opus-4-5-thinking-high", baseModel |-> "claude-opus-4-5-thinking",
        family |-> "claude", thinking |-> "high", thinkingBudget |-> 32768, imageOutput |-> FALSE],
       [id |-> "claude-opus-4-5-thinking-low", baseModel |-> "claude-opus-4-5-thinking",
        family |-> "claude", thinking |-> "low", thinkingBudget |-> 8192, imageOutput |-> FALSE],
       [id |-> "claude-sonnet-4-5-20250929", baseModel |-> "claude-sonnet-4-5-thinking",
        family |-> "claude", thinking |-> "medium", thinkingBudget |-> 16384, imageOutput |-> FALSE],
       [id |-> "claude-3-5-sonnet-20241022", baseModel |-> "claude-sonnet-4-5",
        family |-> "claude", thinking |-> "none", thinkingBudget |-> Undefined, imageOutput |-> FALSE],
       [id |-> "claude-3-5-sonnet-20240620", baseModel |-> "claude-sonnet-4-5",
        family |-> "claude", thinking |-> "none", thinkingBudget |-> Undefined, imageOutput |-> FALSE],
       [id |-> "claude-opus-4", baseModel |-> "claude-opus-4-5-thinking",
        family |-> "claude", thinking |-> "medium", thinkingBudget |-> 16384, imageOutput |-> FALSE],
       [id |-> "claude-opus-4-5-20251101", baseModel |-> "claude-opus-4-5-thinking",
        family |-> "claude", thinking |-> "medium", thinkingBudget |-> 16384, imageOutput |-> FALSE],
       [id |-> "claude-haiku-4", baseModel |-> "claude-sonnet-4-5",
        family |-> "claude", thinking |-> "none", thinkingBudget |-> Undefined, imageOutput |-> FALSE],
       [id |-> "claude-3-haiku-20240307", baseModel |-> "claude-sonnet-4-5",
        family |-> "claude", thinking |-> "none", thinkingBudget |-> Undefined, imageOutput |-> FALSE],
       [id |-> "claude-haiku-4-5-20251001", baseModel |-> "claude-sonnet-4-5",
        family |-> "claude", thinking |-> "none", thinkingBudget |-> Undefined, imageOutput |-> FALSE],
       [id |-> "gpt-4", baseModel |-> "gemini-2.5-flash",
        family |-> "gemini", thinking |-> NoString, thinkingBudget |-> Undefined, imageOutput |-> FALSE],
       [id |-> "gpt-4-turbo", baseModel |-> "gemini-2.5-flash",
        family |-> "gemini", thinking |-> NoString, thinkingBudget |-> Undefined, imageOutput |-> FALSE],
       [id |-> "gpt-4-turbo-preview", baseModel |-> "gemini-2.5-flash",
        family |-> "gemini", thinking |-> NoString, thinkingBudget |-> Undefined, imageOutput |-> FALSE],
       [id |-> "gpt-4o", baseModel |-> "gemini-2.5-flash",
        family |-> "gemini", thinking |-> NoString, thinkingBudget |-> Undefined, imageOutput |-> FALSE],
       [id |-> "gpt-4o-mini", baseModel |-> "gemini-2.5-flash",
        family |-> "gemini", thinking |-> NoString, thinkingBudget |-> Undefined, imageOutput |-> FALSE],
       [id |-> "gpt-3.5-turbo", baseModel |-> "gemini-2.5-flash",
        family |-> "gemini", thinking |-> NoString, thinkingBudget |-> Undefined, imageOutput |-> FALSE],
       [id |-> "gemini-2.0-flash-exp", baseModel |-> "gemini-2.0-flash-exp",
        family |-> "gemini", thinking |-> NoString, thinkingBudget |-> Undefined, imageOutput |-> FALSE],
       [id |-> "gemini-2.5-flash", baseModel |-> "gemini-2.5-flash",
        family |-> "gemini", thinking |-> NoString, thinkingBudget |-> Undefined, imageOutput |-> FALSE],
       [id |-> "gemini-2.5-flash-lite", baseModel |-> "gemini-2.5-flash-lite",
        family |-> "gemini", thinking |-> NoString, thinkingBudget |-> Undefined, imageOutput |-> FALSE],
       [id |-> "gemini-2.5-flash-thinking", baseModel |-> "gemini-2.5-flash-thinking",
        family |-> "gemini", thinking |-> NoString, thinkingBudget |-> Undefined, imageOutput |-> FALSE],
       [id |-> "gemini-3-pro", baseModel |-> "gemini-3-pro-preview",
        family |-> "gemini", thinking |-> NoString, thinkingBudget |-> Undefined, imageOutput |-> FALSE],
       [id |-> "gemini-3-pro-low", baseModel |-> "gemini-3-pro-preview",
        family |-> "gemini", thinking |-> NoString, thinkingBudget |-> Undefined, imageOutput |-> FALSE],
       [id |-> "gemini-3-pro-high", baseModel |-> "gemini-3-pro-preview",
        family |-> "gemini", thinking |-> NoString, thinkingBudget |-> Undefined, imageOutput |-> FALSE],
       [id |-> "gemini-3-pro-preview", baseModel |-> "gemini-3-pro-preview",
        family |-> "gemini", thinking |-> NoString, thinkingBudget |-> Undefined, imageOutput |-> FALSE],
       [id |-> "gemini-3-flash", baseModel |-> "gemini-3-flash",
        family |-> "gemini", thinking |-> NoString, thinkingBudget |-> Undefined, imageOutput |-> FALSE] >>
\* wildcardMatch: a pattern without '*' matches itself only; otherwise the
\* first '*' splits it into a prefix and a suffix the text must carry
wildcardMatch(pattern, text) ==
    LET starPos == indexOf(pattern, "*")
    IN  IF starPos = -1 THEN pattern = text
        ELSE /\ startsWith(text, sliceTo(pattern, starPos))
             /\ endsWith(text, sliceFrom(pattern, starPos + 1))

\* mapModelToTarget: built-in table, then pass-through, then the default
mapModelToTarget(input) ==
    IF Truthy(Lookup(MODEL_MAPPING, input)) THEN Lookup(MODEL_MAPPING, input)
    ELSE IF startsWith(input, "gemini-") \/ includes(input, "thinking") THEN input
    ELSE "claude-sonnet-4-5"

\* the positions of the custom entries whose pattern has a '*' and matches
WildcardHits(routes, originalModel) ==
    {i \in 1..Len(routes) :
        includes(routes[i][1], "*") /\ wildcardMatch(routes[i][1], originalModel)}

\* variant of resolveModelRoute that lets the last matching wildcard win
resolveModelRoute_LastWildcard(routes, originalModel) ==
    IF Truthy(Lookup(routes, originalModel)) THEN Lookup(routes, originalModel)
    ELSE IF WildcardHits(routes, originalModel) # {}
    THEN routes[CHOOSE i \in WildcardHits(routes, originalModel) :
                   \A j \in WildcardHits(routes, originalModel) : j <= i][2]
    ELSE mapModelToTarget(originalModel)

\* resolveModelRoute: custom exact entry, then the first matching custom
\* wildcard in insertion order, then mapModelToTarget
resolveModelRoute(routes, originalModel) ==
    IF Truthy(Lookup(routes, originalModel)) THEN Lookup(routes, originalModel)
    ELSE IF WildcardHits(routes, originalModel) # {}
    THEN routes[CHOOSE i \in WildcardHits(routes, originalModel) :
                   \A j \in WildcardHits(routes, originalModel) : i <= j][2]
    ELSE mapModelToTarget(originalModel)

ImageBase == "gemini-3-pro-image"
ImageResolutions == <<"", "-2k", "-4k">>
ImageRatios == <<"", "-1x1", "-4x3", "-3x4", "-16x9", "-9x16", "-21x9">>

\* variant of generateImageModels in which a variant's base is the entry of
\* its resolution, which in turn has the plain image model as its base
generateImageModels_Chained ==
    [k \in 1..(Len(ImageResolutions) * Len(ImageRatios)) |->
        LET res == ImageResolutions[((k - 1) \div Len(ImageRatios)) + 1]
            ratio == ImageRatios[((k - 1) % Len(ImageRatios)) + 1]
        IN  [id |-> ImageBase \o res \o ratio,
             baseModel |-> IF ratio = "" THEN ImageBase ELSE ImageBase \o res,
             family |-> "gemini", thinking |-> NoString,
             thinkingBudget |-> Undefined, imageOutput |-> TRUE]]

\* generateImageModels: one entry per resolution and ratio, resolutions in the
\* outer loop, all with the plain image model as base
generateImageModels ==
    [k \in 1..(Len(ImageResolutions) * Len(ImageRatios)) |->
        LET res == ImageResolutions[((k - 1) \div Len(ImageRatios)) + 1]
            ratio == ImageRatios[((k - 1) % Len(ImageRatios)) + 1]
        IN  [id |-> ImageBase \o res \o ratio,
             baseModel |-> ImageBase,
             family |-> "gemini", thinking |-> NoString,
             thinkingBudget |-> Undefined, imageOutput |-> TRUE]]

\* the static catalog: the listed entries followed by the image variants
ANTIGRAVITY_MODELS == ListedModels \o generateImageModels

\* stripProviderPrefix: what follows the first ':' when there is one
stripProviderPrefix(modelId) ==
    LET colonIndex == indexOf(modelId, ":")
    IN  IF colonIndex # -1 THEN sliceFrom(modelId, colonIndex + 1) ELSE modelId

\* the result of getModelInfo for an id the catalog does not have
NoModelInfo ==
    [id |-> NoString, baseModel |-> NoString, family |-> NoString,
     thinking |-> NoString, thinkingBudget |-> Undefined, imageOutput |-> FALSE]

\* getModelInfo: the first catalog entry whose id is the stripped id
getModelInfo(modelId) ==
    LET cleanId == stripProviderPrefix(modelId)
        hits == {i \in 1..Len(ANTIGRAVITY_MODELS) : ANTIGRAVITY_MODELS[i].id = cleanId}
    IN  IF hits = {} THEN NoModelInfo
        ELSE ANTIGRAVITY_MODELS[CHOOSE i \in hits : \A j \in hits : i <= j]

\* getBaseModelId: the catalog entry's base when there is an entry, else the
\* route of the stripped id
getBaseModelId(routes, modelId) ==
    LET cleanId == stripProviderPrefix(modelId)
        model == getModelInfo(cleanId)
    IN  IF model # NoModelInfo THEN model.baseModel
        ELSE resolveModelRoute(routes, cleanId)

\* getModelFamily: the catalog entry's family when there is an entry, else
\* claude exactly when the route of the stripped id contains "claude"
getModelFamily(routes, modelId) ==
    LET cleanId == stripProviderPrefix(modelId)
        model == getModelInfo(cleanId)
    IN  IF model # NoModelInfo THEN model.family
        ELSE IF includes(resolveModelRoute(routes, cleanId), "claude") THEN "claude"
        ELSE "gemini"

\* the tier suffixes of parseModelWithTier in the order they are tried
TierMap ==
    << [suffix |-> "-high", level |-> "high", budget |-> 32768],
       [suffix |-> "-medium", level |-> "medium", budget |-> 16384],
       [suffix |-> "-low", level |-> "low", budget |-> 8192] >>

\* parseModelWithTier: the catalog entry when there is one, else the first
\* tier suffix the stripped id ends with, else the stripped id with no thinking
parseModelWithTier(modelId) ==
    LET cleanId == stripProviderPrefix(modelId)
        model == getModelInfo(cleanId)
        tiers == {i \in 1..Len(TierMap) : endsWith(cleanId, TierMap[i].suffix)}
    IN  IF model # NoModelInfo
        THEN [baseModel |-> model.baseModel,
              thinkingLevel |-> IF model.thinking = NoString THEN "none" ELSE model.thinking,
              thinkingBudget |-> model.thinkingBudget]
        ELSE IF tiers # {}
        THEN LET t == TierMap[CHOOSE i \in tiers : \A j \in tiers : i <= j]
             IN  [baseModel |-> sliceTo(cleanId, Len(cleanId) - Len(t.suffix)),
                  thinkingLevel |-> t.level,
                  thinkingBudget |-> t.budget]
        ELSE [baseModel |-> cleanId, thinkingLevel |-> "none", thinkingBudget |-> Undefined]

UpperCaseLetters == "ABCDEFGHIJKLMNOPQRSTUVWXYZ"
LowerCaseLetters == "abcdefghijklmnopqrstuvwxyz"

\* String.prototype.toLowerCase: each upper-case letter is replaced by its
\* lower-case letter, every other character is kept
RECURSIVE toLowerCase(_)
toLowerCase(text) ==
    IF text = "" THEN ""
    ELSE LET ch == SubSeq(text, 1, 1)
             lower == IF \E i \in 1..Len(UpperCaseLetters) : SubSeq(UpperCaseLetters, i, i) = ch
                      THEN LET i == CHOOSE i \in 1..Len(UpperCaseLetters) :
                                        SubSeq(UpperCaseLetters, i, i) = ch
                           IN  SubSeq(LowerCaseLetters, i, i)
                      ELSE ch
         IN  lower \o toLowerCase(SubSeq(text, 2, Len(text)))

\* isImageModel: the catalog entry's imageOutput flag; without an entry, an
\* id that contains the name of the image model
isImageModel(modelId) ==
    LET cleanId == stripProviderPrefix(modelId)
        model == getModelInfo(cleanId)
    IN  IF model # NoModelInfo THEN model.imageOutput
        ELSE includes(toLowerCase(cleanId), "gemini-3-pro-image")

\* variant of parseImageSize that looks for the token at the end of the id
parseImageSize_SuffixAnchored(modelId) ==
    LET cleanId == toLowerCase(stripProviderPrefix(modelId))
    IN  IF endsWith(cleanId, "-4k") \/ endsWith(cleanId, "-hd") THEN "4K"
        ELSE IF endsWith(cleanId, "-2k") THEN "2K"
        ELSE NoString

\* parseImageSize: the size whose token the lower-cased id contains, 4K
\* first; NoString when it contains none
parseImageSize(modelId) ==
    LET cleanId == toLowerCase(stripProviderPrefix(modelId))
    IN  IF includes(cleanId, "-4k") \/ includes(cleanId, "-hd") THEN "4K"
        ELSE IF includes(cleanId, "-2k") THEN "2K"
        ELSE NoString

\* the ratio tokens of parseImageAspectRatio in the order they are tried
RatioTokens ==
    << <<"-21x9", "-21-9", "21:9">>, <<"-16x9", "-16-9", "16:9">>,
       <<"-9x16", "-9-16", "9:16">>, <<"-4x3", "-4-3", "4:3">>,
       <<"-3x4", "-3-4", "3:4">>, <<"-1x1", "-1-1", "1:1">> >>

\* parseImageAspectRatio: the ratio of the first token the lower-cased id
\* contains, 1:1 when it contains none
parseImageAspectRatio(modelId) ==
    LET cleanId == toLowerCase(stripProviderPrefix(modelId))
        hits == {i \in 1..Len(RatioTokens) :
                    includes(cleanId, RatioTokens[i][1]) \/ includes(cleanId, RatioTokens[i][2])}
    IN  IF hits = {} THEN "1:1"
        ELSE RatioTokens[CHOOSE i \in hits : \A j \in hits : i <= j][3]

\* what a request for a model id resolves to: the canonical id and family the
\* resolver reports, and the model id and thinking tier the request is sent with
Resolution(routes, model) ==
    [model |-> model,
     baseModel |-> getBaseModelId(routes, model),
     family |-> getModelFamily(routes, model),
     effectiveModel |-> parseModelWithTier(model).baseModel,
     thinkingLevel |-> parseModelWithTier(model).thinkingLevel]

\* what the resolver reports about the image variant of a model id
ImageVariant(routes, model) ==
    [model |-> model,
     baseModel |-> getBaseModelId(routes, model),
     isImage |-> isImageModel(model),
     imageSize |-> parseImageSize(model),
     aspectRatio |-> parseImageAspectRatio(model)]

\* the custom tables an operator sets: at most MaxRoutes entries
MaxRoutes == 3

\* patterns: exact ids (one of them a catalog id) and single-wildcard globs
\* with a prefix or a suffix
RoutePatterns == {"gpt-4", "gpt-5", "gpt-*", "*-5"}
RouteTargets == {"gemini-3-flash", "claude-opus-4-5-thinking"}

\* a JavaScript object has each key once; its entries keep insertion order
RouteTables ==
    {t \in UNION {[1..n -> RoutePatterns \X RouteTargets] : n \in 0..MaxRoutes} :
        \A i, j \in 1..Len(t) : t[i][1] = t[j][1] => i = j}

\* requested ids: catalog ids (plain, prefixed, tiered), ids only the built-in
\* table knows, and ids nothing knows, with and without "claude", "gemini-",
\* "thinking" or a tier suffix
RequestIds ==
    {"gpt-4", "antigravity:gpt-4", "gpt-4o", "claude-sonnet-4-5-thinking-high",
     "gpt-4-0613", "gpt-5", "gpt-4-5", "o1-5", "claude-unknown", "gemini-9",
     "foo-thinking", "foo-high"}

\* setCustomModelMapping: the table is replaced by a copy of the given one
SetCustomModelMapping ==
    \E mapping \in RouteTables :
        /\ customModelMapping' = mapping
        /\ UNCHANGED <<accounts, cursor, currentAccountIndexByFamily, now, marks, flows, visited,
                       resolution, wire>>

\* a request for a model id is resolved under the table as it is set
ResolveModel ==
    \E model \in RequestIds :
        /\ resolution' = Resolution(customModelMapping, model)
        /\ UNCHANGED <<accounts, cursor, currentAccountIndexByFamily, now, marks, flows, visited,
                       customModelMapping, wire>>

\* Routing on its own: the operator sets tables, requests resolve ids.
InitRoutes == InitPool
NextRoutes == SetCustomModelMapping \/ ResolveModel
SpecRoutes == InitRoutes /\ [][NextRoutes]_vars

(***************************************************************************)
(* C17: model resolution consults the custom route table before the static *)
(* catalog. For every requested id that a custom route matches (exactly or *)
(* by wildcard), the resolved canonical backend id is that route's target, *)
(* also when the id is itself an entry of the static catalog.              *)
(***************************************************************************)
CustomRouteMatches(routes, cleanId) ==
    \/ Truthy(Lookup(routes, cleanId))
    \/ WildcardHits(routes, cleanId) # {}

C17_CustomRouteBeforeCatalog ==
    \A model \in RequestIds :
        LET cleanId == stripProviderPrefix(model)
        IN  CustomRouteMatches(customModelMapping, cleanId) =>
                getBaseModelId(customModelMapping, model) =
                    resolveModelRoute(customModelMapping, cleanId)

(***************************************************************************)
(* C18: within the custom route table an exact-string match of the         *)
(* requested id takes priority over every wildcard match; when no exact    *)
(* entry exists, the target of the first pattern in insertion order whose  *)
(* single-wildcard match X*Y succeeds (the id has prefix X and suffix Y)   *)
(* is returned, and later matching patterns are ignored.                   *)
(***************************************************************************)
ExactOfClaim(id) ==
    {i \in 1..Len(customModelMapping) : customModelMapping[i][1] = id}

\* the entries whose pattern is X*Y with X a prefix and Y a suffix of the id
WildOfClaim(id) ==
    {i \in 1..Len(customModelMapping) :
        LET pattern == customModelMapping[i][1]
        IN  \E k \in 1..Len(pattern) :
                /\ SubSeq(pattern, k, k) = "*"
                /\ SubSeq(id, 1, k - 1) = SubSeq(pattern, 1, k - 1)
                /\ Len(pattern) - k <= Len(id)
                /\ SubSeq(id, Len(id) - (Len(pattern) - k) + 1, Len(id)) =
                       SubSeq(pattern, k + 1, Len(pattern))}

C18_ExactThenFirstWildcard ==
    \A model \in RequestIds :
        LET id == stripProviderPrefix(model)
            ret == resolveModelRoute(customModelMapping, id)
        IN  /\ \A i \in ExactOfClaim(id) : ret = customModelMapping[i][2]
            /\ ExactOfClaim(id) = {} =>
                   \A i \in WildOfClaim(id) :
                       (\A j \in WildOfClaim(id) : i <= j) => ret = customModelMapping[i][2]

\* a table whose exact entry for an id comes after a wildcard that matches it
\* with another target, and in which two wildcards with different targets
\* match an id that has no exact entry
C18_Witness ==
    /\ customModelMapping = << <<"gpt-*", "gemini-3-flash">>,
                               <<"*-5", "claude-opus-4-5-thinking">>,
                               <<"gpt-5", "claude-opus-4-5-thinking">> >>
    /\ WildOfClaim("gpt-5") = {1, 2}
    /\ resolveModelRoute(customModelMapping, "gpt-5") = "claude-opus-4-5-thinking"
    /\ ExactOfClaim("gpt-4-5") = {}
    /\ WildOfClaim("gpt-4-5") = {1, 2}
    /\ resolveModelRoute(customModelMapping, "gpt-4-5") = "gemini-3-flash"

(***************************************************************************)
(* C19: resolution is total. An id (after stripping the provider prefix)   *)
(* that matches no custom route and no catalog entry and carries no tier   *)
(* suffix resolves without error: to a baseline family-A model with no     *)
(* thinking when the id contains a family-A token, and otherwise the id is *)
(* passed through unchanged as a family-B model; the family reported for   *)
(* an id and the family of the canonical backend id sent for it agree.     *)
(***************************************************************************)
UnknownOfClaim(cleanId) ==
    /\ ~CustomRouteMatches(customModelMapping, cleanId)
    /\ getModelInfo(cleanId) = NoModelInfo
    /\ ~Truthy(Lookup(MODEL_MAPPING, cleanId))
    /\ \A i \in 1..Len(TierMap) : ~endsWith(cleanId, TierMap[i].suffix)

C19_UnknownIdFallsBackByFamily ==
    \A model \in RequestIds :
        LET cleanId == stripProviderPrefix(model)
            canonical == getBaseModelId(customModelMapping, model)
            family == getModelFamily(customModelMapping, model)
        IN  /\ UnknownOfClaim(cleanId) =>
                IF includes(cleanId, "claude")
                THEN /\ canonical = "claude-sonnet-4-5"
                     /\ getModelInfo(canonical).thinking = "none"
                     /\ family = "claude"
                ELSE /\ canonical = cleanId
                     /\ family = "gemini"
            /\ getModelFamily(customModelMapping, canonical) = family

(***************************************************************************)
(* C20: with an empty custom route table, resolving any static catalog id  *)
(* returns a canonical backend id that is itself a catalog id or the       *)
(* baseline id and that resolves to itself, so resolving twice gives the   *)
(* same result as resolving once (no resolution loops or chains).          *)
(***************************************************************************)
CatalogIds ==
    {ANTIGRAVITY_MODELS[i].id : i \in 1..Len(ANTIGRAVITY_MODELS)}
        \cup {MODEL_MAPPING[i][1] : i \in 1..Len(MODEL_MAPPING)}

C20_CatalogResolutionIsIdempotent ==
    customModelMapping = <<>> =>
        \A id \in CatalogIds :
            LET canonical == getBaseModelId(customModelMapping, id)
            IN  /\ canonical \in CatalogIds \cup {"claude-sonnet-4-5"}
                /\ getBaseModelId(customModelMapping, canonical) = canonical

\* with the empty table a catalog id that is not its own base has been
\* resolved, and its canonical id resolves to itself
C20_Witness ==
    /\ customModelMapping = <<>>
    /\ resolution.model = "gpt-4"
    /\ resolution.baseModel = "gemini-2.5-flash"
    /\ getBaseModelId(customModelMapping, resolution.baseModel) = resolution.baseModel
    /\ getBaseModelId(customModelMapping, "gemini-3-pro-image-4k-16x9") = "gemini-3-pro-image"

\* ---------------------------------------------------------------------------
\* Request transformation (lib/request-transform.ts, transformRequest).
\* ---------------------------------------------------------------------------

\* isClaudeThinkingModel: a catalog entry of family claude with a thinking
\* level other than none; without an entry, an id that contains both
\* "claude" and "thinking"
isClaudeThinkingModel(modelId) ==
    LET cleanId == stripProviderPrefix(modelId)
        model == getModelInfo(cleanId)
        lower == toLowerCase(cleanId)
    IN  IF model # NoModelInfo
        THEN model.family = "claude" /\ model.thinking # "none" /\ model.thinking # NoString
        ELSE includes(lower, "claude") /\ includes(lower, "thinking")

CLAUDE_THINKING_MAX_OUTPUT_TOKENS == 65536

\* the hint pushed to the parts of the system instruction
ThinkingHint == "Interleaved thinking is enabled."

\* parsed.systemInstruction: absent, an object without a parts list, or an
\* object with one
NoInstruction == [exists |-> FALSE, hasParts |-> FALSE, parts |-> <<>>]
SystemInstructions ==
    {NoInstruction,
     [exists |-> TRUE, hasParts |-> FALSE, parts |-> <<>>],
     [exists |-> TRUE, hasParts |-> TRUE, parts |-> <<"sys">>]}

\* parsed.tools: absent, an empty list, or a list of declarations
NoTools == [exists |-> FALSE, list |-> <<>>]
ToolLists ==
    {NoTools, [exists |-> TRUE, list |-> <<>>], [exists |-> TRUE, list |-> <<"decl">>]}

\* a generation config by the keys transformRequest reads or writes; a key
\* that is absent is Undefined, and `{}` is the config with every key absent
NoConfig ==
    [maxOutputTokens |-> Undefined, max_output_tokens |-> Undefined,
     thinkingConfig |-> Undefined]
GenerationConfigs ==
    {[NoConfig EXCEPT !.maxOutputTokens = camel, !.max_output_tokens = snake] :
        camel \in {Undefined, 4096, 32768, 40000}, snake \in {Undefined, 4096, 100000}}

\* Object.keys(generationConfig).length
ConfigKeys(config) ==
    Cardinality({k \in DOMAIN config : config[k] # Undefined})

\* requested model ids: catalog ids with and without thinking of both
\* families, ids with a tier suffix or with "thinking" that the catalog does
\* not have, an unknown id, and no model id in the URL
RequestedModels ==
    {"claude-sonnet-4-5-thinking", "claude-opus-4-5-thinking-high", "claude-sonnet-4-5",
     "gemini-2.5-flash", "claude-unknown-high", "Claude-X-Thinking", "gemini-9-low",
     "gpt-5", NoString}

\* the requests transformRequest is called with
Requests ==
    [modelFromUrl : RequestedModels,
     model : {NoString},
     systemInstruction : SystemInstructions,
     tools : ToolLists,
     generationConfig : GenerationConfigs,
     streaming : BOOLEAN,
     headerStyle : HeaderStyle]
\* modelFromUrl || parsed.model || 'unknown'
requestedModelOf(request) ==
    IF Truthy(request.modelFromUrl) THEN request.modelFromUrl
    ELSE IF Truthy(request.model) THEN request.model
    ELSE "unknown"

\* variant of withThinkingHint that does not look at the tools
withThinkingHint_IgnoreTools(systemInstruction, tools, isThinking) ==
    IF systemInstruction.exists /\ isThinking /\ systemInstruction.hasParts
    THEN [systemInstruction EXCEPT !.parts = Append(@, ThinkingHint)]
    ELSE systemInstruction

\* the system instruction of the wrapped request: the inbound one, with the
\* hint pushed to its parts when the model is a thinking model, the tools are
\* a non-empty list and the instruction has a parts list
withThinkingHint(systemInstruction, tools, isThinking) ==
    IF /\ systemInstruction.exists
       /\ isThinking /\ tools.exists /\ Len(tools.list) > 0
       /\ systemInstruction.hasParts
    THEN [systemInstruction EXCEPT !.parts = Append(@, ThinkingHint)]
    ELSE systemInstruction

\* maxOutputTokens || max_output_tokens || 0
currentMaxOf(config) ==
    IF config.maxOutputTokens # Undefined /\ config.maxOutputTokens # 0
    THEN config.maxOutputTokens
    ELSE IF config.max_output_tokens # Undefined /\ config.max_output_tokens # 0
    THEN config.max_output_tokens
    ELSE 0

\* variant of withThinkingConfig that raises the cap only when there is none
withThinkingConfig_RaiseAbsentOnly(config, isThinking, thinkingBudget) ==
    IF isThinking /\ thinkingBudget # Undefined /\ thinkingBudget # 0
    THEN [config EXCEPT
             !.thinkingConfig = thinkingBudget,
             !.maxOutputTokens =
                 IF currentMaxOf(config) = 0
                 THEN CLAUDE_THINKING_MAX_OUTPUT_TOKENS
                 ELSE config.maxOutputTokens]
    ELSE config

\* the generation config of the wrapped request: for a thinking model with a
\* budget the thinking config is set, and maxOutputTokens is set to the
\* ceiling when the current cap is missing or not above the budget
withThinkingConfig(config, isThinking, thinkingBudget) ==
    IF isThinking /\ thinkingBudget # Undefined /\ thinkingBudget # 0
    THEN [config EXCEPT
             !.thinkingConfig = thinkingBudget,
             !.maxOutputTokens =
                 IF currentMaxOf(config) = 0 \/ currentMaxOf(config) <= thinkingBudget
                 THEN CLAUDE_THINKING_MAX_OUTPUT_TOKENS
                 ELSE config.maxOutputTokens]
    ELSE config

\* transformRequest for a body that parses: the model id, tier, family and
\* thinking flag of the requested model, the system instruction, the tools and
\* tool config, the generation config and the headers of the wrapped request.
\* sessionId and requestId are random and read by nothing; they are left out.
transformRequest(routes, request) ==
    LET requestedModel == requestedModelOf(request)
        tier == parseModelWithTier(requestedModel)
        family == getModelFamily(routes, requestedModel)
        isThinking == isClaudeThinkingModel(requestedModel)
        generationConfig ==
            withThinkingConfig(request.generationConfig, isThinking, tier.thinkingBudget)
    IN  [pc |-> "sent",
         request |-> request,
         requestedModel |-> requestedModel,
         model |-> tier.baseModel,
         thinkingLevel |-> tier.thinkingLevel,
         thinkingBudget |-> tier.thinkingBudget,
         family |-> family,
         isThinking |-> isThinking,
         systemInstruction |->
             withThinkingHint(request.systemInstruction, request.tools, isThinking),
         tools |-> request.tools,
         toolConfig |-> IF request.tools.exists /\ family = "claude" THEN "VALIDATED"
                        ELSE NoString,
         hasGenerationConfig |-> ConfigKeys(generationConfig) > 0,
         generationConfig |-> generationConfig,
         action |-> IF request.streaming THEN "streamGenerateContent?alt=sse"
                    ELSE "generateContent",
         userAgent |-> request.headerStyle,
         accept |-> IF request.streaming THEN "text/event-stream" ELSE NoString,
         anthropicBeta |-> IF isThinking THEN "interleaved-thinking-2025-05-14"
                           ELSE NoString]

\* a call of transformRequest that has not run yet
Pending(request) == [pc |-> "request", request |-> request]

\* the manager, the clock and the flows, which no transform touches
idle == <<accounts, cursor, currentAccountIndexByFamily, now, marks, flows, visited>>

\* a manager as constructed, with nothing loaded and no flow started
InitIdle ==
    /\ accounts = New.accounts
    /\ cursor = New.cursor
    /\ currentAccountIndexByFamily = New.currentAccountIndexByFamily
    /\ now = 0
    /\ marks = 0
    /\ flows = [p \in FlowIds |-> Idle]
    /\ visited = <<>>

\* transformRequest runs on the pending request under the table as it is set
TransformRequest ==
    /\ outbound.pc = "request"
    /\ outbound' = transformRequest(customModelMapping, outbound.request)
    /\ UNCHANGED <<idle, resolver, stream, unwrapped, quota, report>>

\* the custom tables of at most one entry
OneRouteTables == {t \in RouteTables : Len(t) <= 1}

\* Request transformation on its own: any request, under any custom table of
\* at most one entry.
InitRequest ==
    /\ InitIdle
    /\ customModelMapping \in OneRouteTables
    /\ resolution = NoResolution
    /\ outbound \in {Pending(request) : request \in Requests}
    /\ stream = NoStream
    /\ unwrapped = NoResponse
    /\ quota = NoQuota
    /\ report = NoReport
NextRequest == TransformRequest
SpecRequest == InitRequest /\ [][NextRequest]_vars

(***************************************************************************)
(* C21: isThinkingCapable(id) is true if and only if the id resolves to    *)
(* family A with a thinking tier other than none, for catalog ids and for  *)
(* ids resolved through the suffix-tier and family-inference fallbacks     *)
(* alike, so the thinking configuration and thinking header of an outbound *)
(* request are present exactly when the resolved tier is not none.         *)
(***************************************************************************)
C21_ThinkingIffFamilyAWithTier ==
    outbound.pc = "sent" =>
        /\ outbound.isThinking <=>
               (outbound.family = "claude" /\ outbound.thinkingLevel # "none")
        /\ outbound.isThinking =>
               /\ outbound.generationConfig.thinkingConfig # Undefined
               /\ outbound.anthropicBeta # NoString
        /\ ~outbound.isThinking =>
               /\ outbound.generationConfig.thinkingConfig = Undefined
               /\ outbound.anthropicBeta = NoString

\* ---------------------------------------------------------------------------
\* Image variants (lib/models.ts, parseImageSize and parseImageAspectRatio).
\* ---------------------------------------------------------------------------

\* the ids asked about: every generated image id, plain and with a provider
\* prefix, an id with the -hd token and upper-case letters, and an id that is
\* not an image model
ImageRequestIds ==
    {generateImageModels[k].id : k \in 1..Len(generateImageModels)}
        \cup {"antigravity:" \o generateImageModels[k].id : k \in 1..Len(generateImageModels)}
        \cup {"Gemini-3-Pro-Image-HD-16-9", "gemini-2.5-flash"}

\* the resolver is asked about an image id
ResolveImageModel ==
    \E model \in ImageRequestIds :
        /\ resolution' = ImageVariant(customModelMapping, model)
        /\ UNCHANGED <<idle, customModelMapping, wire>>

\* Image ids on their own, under any custom table of at most one entry.
InitImage ==
    /\ InitIdle
    /\ customModelMapping \in OneRouteTables
    /\ resolution = NoResolution
    /\ InitWire
NextImage == ResolveImageModel
SpecImage == InitImage /\ [][NextImage]_vars

(***************************************************************************)
(* C22: for every identifier produced by the image-model expansion (the    *)
(* cross product of {no resolution, 2K, 4K} and {no ratio, 1:1, 4:3, 3:4,  *)
(* 16:9, 9:16, 21:9}, all 21 identifiers distinct), parseImageVariant      *)
(* returns exactly the resolution and aspect ratio embedded in the id,     *)
(* with default resolution when no resolution token is present and aspect  *)
(* ratio 1:1 when no ratio token is present; no token of one variant is    *)
(* mistaken for another.                                                   *)
(***************************************************************************)
SizeOfClaim == [res \in {"", "-2k", "-4k"} |->
                   IF res = "-2k" THEN "2K" ELSE IF res = "-4k" THEN "4K" ELSE NoString]
RatioOfClaim ==
    [ratio \in {"", "-1x1", "-4x3", "-3x4", "-16x9", "-9x16", "-21x9"} |->
        IF ratio = "-4x3" THEN "4:3" ELSE IF ratio = "-3x4" THEN "3:4"
        ELSE IF ratio = "-16x9" THEN "16:9" ELSE IF ratio = "-9x16" THEN "9:16"
        ELSE IF ratio = "-21x9" THEN "21:9" ELSE "1:1"]

C22_ImageVariantRoundTrips ==
    /\ Len(generateImageModels) = Cardinality(DOMAIN SizeOfClaim) * Cardinality(DOMAIN RatioOfClaim)
    /\ \A i, j \in 1..Len(generateImageModels) :
           generateImageModels[i].id = generateImageModels[j].id => i = j
    /\ \A res \in DOMAIN SizeOfClaim, ratio \in DOMAIN RatioOfClaim :
           /\ \E k \in 1..Len(generateImageModels) :
                  generateImageModels[k].id = "gemini-3-pro-image" \o res \o ratio
           /\ (/\ resolution # NoResolution
               /\ stripProviderPrefix(resolution.model) = "gemini-3-pro-image" \o res \o ratio) =>
                  /\ resolution.imageSize = SizeOfClaim[res]
                  /\ resolution.aspectRatio = RatioOfClaim[ratio]

\* the variant with resolution 4K and ratio 4:3, whose id also carries the
\* characters of other tokens, was parsed
C22_Witness ==
    /\ resolution.model = "gemini-3-pro-image-4k-3x4"
    /\ resolution.imageSize = "4K"
    /\ resolution.aspectRatio = "3:4"
    /\ resolution.isImage

\* ---------------------------------------------------------------------------
\* Response transformation (lib/request-transform.ts).
\* ---------------------------------------------------------------------------

\* the characters String.prototype.trim removes, among those that occur
WhiteSpace == {" ", "\t", "\r", "\n"}

\* String.prototype.trim
RECURSIVE trim(_)
trim(text) ==
    IF text = "" THEN ""
    ELSE IF SubSeq(text, 1, 1) \in WhiteSpace THEN trim(SubSeq(text, 2, Len(text)))
    ELSE IF SubSeq(text, Len(text), Len(text)) \in WhiteSpace
    THEN trim(SubSeq(text, 1, Len(text) - 1))
    ELSE text

\* String.prototype.split('\n'): the pieces between the newlines, in order;
\* a text without a newline is its only piece
RECURSIVE split(_)
split(text) ==
    LET at == indexOf(text, "\n")
    IN  IF at = -1 THEN <<text>>
        ELSE <<sliceTo(text, at)>> \o split(sliceFrom(text, at + 1))

\* JSON.parse and JSON.stringify on the payloads that occur.  For a text that
\* parses: whether reading `.response` of the value throws (the value null),
\* the serialised `response` member when it is truthy (NoString otherwise),
\* and the serialised value.  A text that is not listed does not parse.
JsonTexts ==
    << [text |-> "{\"response\":{\"text\":\"hi\"}}", nullish |-> FALSE,
        response |-> "{\"text\":\"hi\"}", value |-> "{\"response\":{\"text\":\"hi\"}}"],
       [text |-> "{\"text\":\"hi\"}", nullish |-> FALSE,
        response |-> NoString, value |-> "{\"text\":\"hi\"}"],
       [text |-> "{\"a\":1}", nullish |-> FALSE,
        response |-> NoString, value |-> "{\"a\":1}"],
       [text |-> "{ \"a\": 1 }", nullish |-> FALSE,
        response |-> NoString, value |-> "{\"a\":1}"],
       [text |-> "{\"response\":null}", nullish |-> FALSE,
        response |-> NoString, value |-> "{\"response\":null}"],
       [text |-> "null", nullish |-> TRUE,
        response |-> NoString, value |-> "null"] >>

\* the entry of a text in JsonTexts, 0 when JSON.parse throws
JSONparse(text) ==
    IF \E i \in 1..Len(JsonTexts) : JsonTexts[i].text = trim(text)
    THEN CHOOSE i \in 1..Len(JsonTexts) : JsonTexts[i].text = trim(text)
    ELSE 0

\* JSON.stringify(data.response || data) for a text: NoString when the parse
\* or the read of `.response` throws
unwrapJson(text) ==
    LET data == JSONparse(text)
    IN  IF data = 0 THEN NoString
        ELSE IF JsonTexts[data].nullish THEN NoString
        ELSE IF JsonTexts[data].response # NoString THEN JsonTexts[data].response
        ELSE JsonTexts[data].value

\* variant of unwrapLine that re-emits the whole payload of a data line
unwrapLine_WholePayload(line) ==
    IF trim(line) = "" THEN "\n"
    ELSE IF ~startsWith(line, "data: ") THEN line \o "\n"
    ELSE LET dataStr == trim(sliceFrom(line, 6))
         IN  IF dataStr = "" \/ dataStr = "[DONE]" THEN line \o "\n"
             ELSE IF JSONparse(dataStr) = 0 \/ JsonTexts[JSONparse(dataStr)].nullish
             THEN line \o "\n"
             ELSE "data: " \o JsonTexts[JSONparse(dataStr)].value \o "\n"

\* what transform enqueues for one complete line
unwrapLine(line) ==
    IF trim(line) = "" THEN "\n"
    ELSE IF ~startsWith(line, "data: ") THEN line \o "\n"
    ELSE LET dataStr == trim(sliceFrom(line, 6))
         IN  IF dataStr = "" \/ dataStr = "[DONE]" THEN line \o "\n"
             ELSE IF unwrapJson(dataStr) = NoString THEN line \o "\n"
             ELSE "data: " \o unwrapJson(dataStr) \o "\n"

\* variant of transform that splits each chunk on its own
transform_ChunkAlone(s, chunk) ==
    LET lines == split(chunk)
    IN  [s EXCEPT
            !.buffer = lines[Len(lines)],
            !.out = @ \o [i \in 1..(Len(lines) - 1) |-> unwrapLine(lines[i])]]

\* transform(chunk): the chunk is added to the buffer, the buffer is split at
\* the newlines, the last piece stays in the buffer and each other piece is
\* enqueued as unwrapLine gives it
transform(s, chunk) ==
    LET lines == split(s.buffer \o chunk)
    IN  [s EXCEPT
            !.buffer = lines[Len(lines)],
            !.out = @ \o [i \in 1..(Len(lines) - 1) |-> unwrapLine(lines[i])]]

\* variant of flush that enqueues nothing
flush_Nothing(s) ==
    [s EXCEPT !.pc = "closed"]

\* flush: a buffer that is not only white space is enqueued with a newline
flush(s) ==
    [s EXCEPT
        !.pc = "closed",
        !.out = IF trim(s.buffer) # "" THEN Append(@, s.buffer \o "\n") ELSE @]

\* the chunks a body arrives in: at most MaxChunks
MaxChunks == 2

\* response bodies, each as its complete lines and what follows the last
\* newline: the enveloped event of the documentation; a bare payload and the
\* [DONE] line; a comment line, a line of one space and a payload that does
\* not parse; CRLF line ends, a null `response` and a last line without
\* newline; a payload with spaces, the payload null and a tab after the last
\* newline
Bodies ==
    { [lines |-> <<"data: {\"response\":{\"text\":\"hi\"}}", "">>, tail |-> ""],
      [lines |-> <<"data: {\"a\":1}", "", "data: [DONE]">>, tail |-> ""],
      [lines |-> <<": ping", " ", "data: {bad">>, tail |-> ""],
      [lines |-> <<"data: {\"response\":null}\r", "\r">>, tail |-> "event: x"],
      [lines |-> <<"data: { \"a\": 1 }", "data: null">>, tail |-> "\t"] }

\* the text of a body
RECURSIVE Join(_)
Join(lines) ==
    IF lines = <<>> THEN "" ELSE lines[1] \o "\n" \o Join(Tail(lines))
TextOf(body) == Join(body.lines) \o body.tail

\* the ways a text is cut into at most MaxChunks non-empty chunks
Cuts(text) ==
    {c \in UNION {[1..m -> 1..(Len(text) - 1)] : m \in 0..(MaxChunks - 1)} :
        \A i \in 1..(Len(c) - 1) : c[i] < c[i + 1]}
ChunksOf(text, c) ==
    [i \in 1..(Len(c) + 1) |->
        SubSeq(text, IF i = 1 THEN 1 ELSE c[i - 1] + 1,
                     IF i = Len(c) + 1 THEN Len(text) ELSE c[i])]

\* a response body about to be piped through the transform: buffer = ''; cuts
\* keeps the offsets at which the reader cuts the body
StreamOf(body, c) ==
    [pc |-> "open", body |-> body, cuts |-> c, chunks |-> ChunksOf(TextOf(body), c),
     read |-> 0, buffer |-> "", out |-> <<>>]
Streams ==
    UNION {{StreamOf(body, c) : c \in Cuts(TextOf(body))} : body \in Bodies}

\* the reader delivers the next chunk and transform runs on it
TransformChunk ==
    /\ stream.pc = "open"
    /\ stream.chunks # <<>>
    /\ stream' = [transform(stream, Head(stream.chunks)) EXCEPT
                     !.chunks = Tail(stream.chunks),
                     !.read = @ + Len(Head(stream.chunks))]
    /\ UNCHANGED <<idle, resolver, outbound, unwrapped, quota, report>>

\* the body ended: flush runs
Flush ==
    /\ stream.pc = "open"
    /\ stream.chunks = <<>>
    /\ stream' = flush(stream)
    /\ UNCHANGED <<idle, resolver, outbound, unwrapped, quota, report>>

\* A streaming response on its own: any body, in any chunking.
InitStream ==
    /\ InitIdle
    /\ InitResolver
    /\ outbound = NoOutbound
    /\ stream \in Streams
    /\ unwrapped = NoResponse
    /\ quota = NoQuota
    /\ report = NoReport
NextStream == TransformChunk \/ Flush
SpecStream == InitStream /\ [][NextStream]_vars

(***************************************************************************)
(* C23: unwrapStreamingResponse emits exactly one output line per complete *)
(* input line, in the same order: blank lines and non-data lines           *)
(* unchanged, a data line whose payload parses as JSON re-emitted as the   *)
(* data prefix plus the payload's `response` sub-field (the whole payload  *)
(* when it has none), and an unparsable data line unchanged without        *)
(* failing the stream; e.g. input `data: {"response":{"text":"hi"}}`       *)
(* followed by a blank line yields `data: {"text":"hi"}` followed by a     *)
(* blank line.                                                             *)
(* The code emits a line of white space only as an empty line, and re-     *)
(* emits the whole payload also when its `response` is null;               *)
(* C23_LinesUnwrappedInOrder states the claim with these two cases as the  *)
(* code has them, C23_EveryLineAsClaimed states it as it was made.         *)
(***************************************************************************)
\* what the claim has emitted for each complete line of Bodies
LineOfClaim ==
    << <<"data: {\"response\":{\"text\":\"hi\"}}", "data: {\"text\":\"hi\"}">>,
       <<"", "">>,
       <<"data: {\"a\":1}", "data: {\"a\":1}">>,
       <<"data: [DONE]", "data: [DONE]">>,
       <<": ping", ": ping">>,
       <<" ", " ">>,
       <<"data: {bad", "data: {bad">>,
       <<"data: {\"response\":null}\r", "data: null">>,
       <<"\r", "\r">>,
       <<"data: { \"a\": 1 }", "data: {\"a\":1}">>,
       <<"data: null", "data: null">> >>

\* the same with a white-space line emitted empty and a null `response`
\* taken as none
LineAsAmended ==
    << <<"data: {\"response\":{\"text\":\"hi\"}}", "data: {\"text\":\"hi\"}">>,
       <<"", "">>,
       <<"data: {\"a\":1}", "data: {\"a\":1}">>,
       <<"data: [DONE]", "data: [DONE]">>,
       <<": ping", ": ping">>,
       <<" ", "">>,
       <<"data: {bad", "data: {bad">>,
       <<"data: {\"response\":null}\r", "data: {\"response\":null}">>,
       <<"\r", "">>,
       <<"data: { \"a\": 1 }", "data: {\"a\":1}">>,
       <<"data: null", "data: null">> >>

\* the number of complete lines among the characters read so far
RECURSIVE CompleteLines(_, _)
CompleteLines(lines, read) ==
    IF lines = <<>> \/ Len(lines[1]) + 1 > read THEN 0
    ELSE 1 + CompleteLines(Tail(lines), read - (Len(lines[1]) + 1))

ResponseTexts ==
    {JsonTexts[i].text : i \in 1..Len(JsonTexts)} \cup {" {\"a\":1}\n", "{bad", "", "Not Found"}
Responses ==
    [status : {200, 404, 429, 500}, headers : {"h1", "h2"}, text : ResponseTexts]

\* variant of transformNonStreamingResponse that answers a body that does not
\* parse with status 200
transformNonStreamingResponse_OkOnFailure(response) ==
    IF unwrapJson(response.text) # NoString
    THEN [pc |-> "done", status |-> response.status, headers |-> response.headers,
          body |-> unwrapJson(response.text)]
    ELSE [pc |-> "done", status |-> 200, headers |-> response.headers,
          body |-> response.text]

\* transformNonStreamingResponse: the serialised `response` member of the
\* parsed body when it is truthy, else the serialised body; the text as it is
\* when the parse or the read throws; status and headers of the response
transformNonStreamingResponse(response) ==
    IF unwrapJson(response.text) # NoString
    THEN [pc |-> "done", status |-> response.status, headers |-> response.headers,
          body |-> unwrapJson(response.text)]
    ELSE [pc |-> "done", status |-> response.status, headers |-> response.headers,
          body |-> response.text]

\* transformNonStreamingResponse runs on the response received
TransformNonStreamingResponse ==
    /\ unwrapped.pc = "response"
    /\ unwrapped' = [transformNonStreamingResponse(unwrapped.response) EXCEPT
                        !.pc = "done"] @@ [response |-> unwrapped.response]
    /\ UNCHANGED <<idle, resolver, outbound, stream, quota, report>>

\* Envelope unwrapping on its own: any response.
InitUnwrap ==
    /\ InitIdle
    /\ InitResolver
    /\ outbound = NoOutbound
    /\ stream = NoStream
    /\ unwrapped \in {[pc |-> "response", response |-> r] : r \in Responses}
    /\ quota = NoQuota
    /\ report = NoReport
NextUnwrap == TransformNonStreamingResponse
SpecUnwrap == InitUnwrap /\ [][NextUnwrap]_vars

(***************************************************************************)
(* C24: unwrapResponse never throws and preserves status and headers: a    *)
(* JSON body with a `response` field yields exactly that field's JSON as   *)
(* the new body, a JSON body lacking a `response` field is returned        *)
(* unchanged (so unwrapping an already unwrapped body is a no-op), and an  *)
(* unparsable body is returned verbatim.                                   *)
(* The code returns the whole body also when its `response` is null;       *)
(* C24_UnwrapKeepsStatusAndHeaders states the claim with this case as the  *)
(* code has it, C24_ResponseFieldAlwaysUnwrapped states it as it was made. *)
(* A JSON body counts as unchanged when the JSON it holds is.              *)
(***************************************************************************)
\* the body the claim has returned for each text of ResponseTexts
BodyOfClaim ==
    << <<"{\"response\":{\"text\":\"hi\"}}", "{\"text\":\"hi\"}">>,
       <<"{\"text\":\"hi\"}", "{\"text\":\"hi\"}">>,
       <<"{\"a\":1}", "{\"a\":1}">>,
       <<"{ \"a\": 1 }", "{\"a\":1}">>,
       <<" {\"a\":1}\n", "{\"a\":1}">>,
       <<"{\"response\":null}", "null">>,
       <<"null", "null">>,
       <<"{bad", "{bad">>,
       <<"", "">>,
       <<"Not Found", "Not Found">> >>

\* the same with a null `response` taken as none
BodyAsAmended ==
    [i \in 1..Len(BodyOfClaim) |->
        IF BodyOfClaim[i][1] = "{\"response\":null}"
        THEN <<BodyOfClaim[i][1], "{\"response\":null}">>
        ELSE BodyOfClaim[i]]

C24_UnwrapKeepsStatusAndHeaders ==
    unwrapped.pc = "done" =>
        /\ unwrapped.status = unwrapped.response.status
        /\ unwrapped.headers = unwrapped.response.headers
        /\ unwrapped.body = Lookup(BodyAsAmended, unwrapped.response.text)
        /\ unwrapped.response.text \in {"{\"text\":\"hi\"}", "{\"a\":1}", "{ \"a\": 1 }"} =>
               transformNonStreamingResponse(
                   [unwrapped.response EXCEPT !.text = unwrapped.body]).body = unwrapped.body

C24_ResponseFieldAlwaysUnwrapped ==
    unwrapped.pc = "done" =>
        /\ unwrapped.status = unwrapped.response.status
        /\ unwrapped.headers = unwrapped.response.headers
        /\ unwrapped.body = Lookup(BodyOfClaim, unwrapped.response.text)

\* an enveloped body of an error response was unwrapped, and unwrapping what
\* was returned changes nothing
C24_Witness ==
    /\ unwrapped.pc = "done"
    /\ unwrapped.response.text = "{\"response\":{\"text\":\"hi\"}}"
    /\ unwrapped.response.status = 429
    /\ unwrapped.status = 429
    /\ unwrapped.body = "{\"text\":\"hi\"}"
    /\ transformNonStreamingResponse(
           [unwrapped.response EXCEPT !.text = unwrapped.body]).body = unwrapped.body

(***************************************************************************)
(* C25: When the input stream ends normally, whatever content is still     *)
(* held in the line buffer (a last line without terminating newline) is    *)
(* flushed to the output, nothing buffered is dropped, and between chunks  *)
(* the buffer holds at most one incomplete line (it never contains a       *)
(* newline), so the transform never accumulates the whole body.            *)
(* flush tests `buffer.trim()`, so a leftover of white space only is       *)
(* dropped; C25_LeftoverFlushedUnlessBlank states the claim with this case *)
(* as the code has it, C25_LeftoverAlwaysFlushed states it as it was made. *)
(* Between chunks the buffer is the text read since the last newline.      *)
(***************************************************************************)
\* the length of the complete lines within the first `read` characters
RECURSIVE CompleteLength(_, _)
CompleteLength(lines, read) ==
    IF lines = <<>> \/ Len(lines[1]) + 1 > read THEN 0
    ELSE Len(lines[1]) + 1 + CompleteLength(Tail(lines), read - (Len(lines[1]) + 1))

BufferIsIncompleteLine ==
    stream.pc \in {"open", "closed"} =>
        /\ ~includes(stream.buffer, "\n")
        /\ stream.buffer = SubSeq(TextOf(stream.body),
                                  CompleteLength(stream.body.lines, stream.read) + 1,
                                  stream.read)

C25_LeftoverFlushedUnlessBlank ==
    /\ BufferIsIncompleteLine
    /\ stream.pc = "closed" =>
           /\ stream.buffer = stream.body.tail
           /\ IF trim(stream.body.tail) # ""
              THEN /\ Len(stream.out) = Len(stream.body.lines) + 1
                   /\ stream.out[Len(stream.out)] = stream.body.tail \o "\n"
              ELSE Len(stream.out) = Len(stream.body.lines)

C25_LeftoverAlwaysFlushed ==
    /\ BufferIsIncompleteLine
    /\ stream.pc = "closed" =>
           /\ stream.buffer = stream.body.tail
           /\ IF stream.body.tail # ""
              THEN /\ Len(stream.out) = Len(stream.body.lines) + 1
                   /\ stream.out[Len(stream.out)] = stream.body.tail \o "\n"
              ELSE Len(stream.out) = Len(stream.body.lines)

\* a body that ends in a line without a newline arrived in two chunks, the
\* second within that line, and the stream closed with the line flushed
C25_Witness ==
    /\ stream.pc = "closed"
    /\ stream.body.tail = "event: x"
    /\ stream.buffer = "event: x"
    /\ stream.out[Len(stream.out)] = "event: x\n"
    /\ Len(stream.out) = 3

(***************************************************************************)
(* C26: In every outbound request that carries a thinking configuration,   *)
(* the output-token cap of the outbound generation config is strictly      *)
(* greater than the injected thinking budget: an inbound cap that is       *)
(* absent or less than or equal to the budget is raised to the fixed       *)
(* ceiling 65536, and a cap already above the budget is left unchanged.    *)
(* The cap of a generation config is read as the code reads it,            *)
(* maxOutputTokens before max_output_tokens.                               *)
(***************************************************************************)
C26_CapAboveThinkingBudget ==
    (outbound.pc = "sent" /\ outbound.generationConfig.thinkingConfig # Undefined) =>
        LET inbound == outbound.request.generationConfig
            budget == outbound.generationConfig.thinkingConfig
        IN  /\ budget = outbound.thinkingBudget
            /\ currentMaxOf(outbound.generationConfig) > budget
            /\ IF currentMaxOf(inbound) <= budget
               THEN outbound.generationConfig.maxOutputTokens = 65536
               ELSE /\ outbound.generationConfig.maxOutputTokens = inbound.maxOutputTokens
                    /\ currentMaxOf(outbound.generationConfig) = currentMaxOf(inbound)
            /\ outbound.generationConfig.max_output_tokens = inbound.max_output_tokens

\* a request with a cap equal to the budget of its tier went out with the
\* ceiling as its cap
C26_Witness ==
    /\ outbound.pc = "sent"
    /\ outbound.requestedModel = "claude-opus-4-5-thinking-high"
    /\ outbound.request.generationConfig.maxOutputTokens = 32768
    /\ outbound.generationConfig.thinkingConfig = 32768
    /\ outbound.generationConfig.maxOutputTokens = 65536

(***************************************************************************)
(* C27: buildOutboundRequest appends the fixed interleaved-reasoning hint  *)
(* to the system-instruction parts exactly when the resolved family is the *)
(* thinking-capable family (family A), the inbound payload includes tool   *)
(* declarations, and a system instruction exists; in every other case the  *)
(* system instruction is copied unchanged or stays absent.                 *)
(* The code asks for a thinking model (an id that holds "claude" and       *)
(* "thinking"), not for the family, and for a system instruction that has  *)
(* a parts list; C27_HintForThinkingModelWithTools states the claim with   *)
(* these conditions, C27_HintForFamilyAWithTools states it as it was made. *)
(***************************************************************************)
\* the ids of RequestedModels that hold "claude" and "thinking" in any case
ThinkingIdsOfClaim ==
    {"claude-sonnet-4-5-thinking", "claude-opus-4-5-thinking-high", "Claude-X-Thinking"}

HintAppended ==
    outbound.systemInstruction =
        [outbound.request.systemInstruction EXCEPT !.parts = Append(@, ThinkingHint)]

NoTier == [exists |-> FALSE, id |-> NoString]
Tiers ==
    {NoTier} \cup
    {[exists |-> TRUE, id |-> i] : i \in {NoString, "ULTRA", "PRO", "FREE", "g1-pro-tier"}}
LoadProjectResponses == [paidTier : Tiers, currentTier : Tiers]

\* what the tier lookup meets: a network error, a status that is not ok, a
\* body that is not JSON, or a LoadProjectResponse
TierOutcomes ==
    {[kind |-> "network"], [kind |-> "status"], [kind |-> "json"]} \cup
    {[kind |-> "data", data |-> d] : d \in LoadProjectResponses}

\* what the quota listing meets: a network error, a response that is ok, or a
\* response that is not, whose body can be read or not
ListingOutcomes ==
    {[kind |-> "network"],
     [kind |-> "ok", models |-> "models"],
     [kind |-> "status", status |-> 429, readable |-> TRUE, text |-> "quota exceeded"],
     [kind |-> "status", status |-> 403, readable |-> TRUE, text |-> ""],
     [kind |-> "status", status |-> 500, readable |-> FALSE, text |-> "oops"]}

\* variant of tierOf that looks at the current tier first
tierOf_CurrentFirst(data) ==
    LET tierId == IF data.currentTier.exists /\ data.currentTier.id # NoString
                  THEN data.currentTier.id
                  ELSE data.paidTier.id
    IN  IF tierId \in {"ULTRA", "PRO", "FREE"} THEN tierId ELSE "UNKNOWN"

\* data.paidTier?.id ?? data.currentTier?.id, kept when it is one of ULTRA,
\* PRO and FREE and 'UNKNOWN' otherwise
tierOf(data) ==
    LET tierId == IF data.paidTier.exists /\ data.paidTier.id # NoString
                  THEN data.paidTier.id
                  ELSE data.currentTier.id
    IN  IF tierId \in {"ULTRA", "PRO", "FREE"} THEN tierId ELSE "UNKNOWN"

\* variant of fetchSubscriptionTier without the try around the request
fetchSubscriptionTier_NoCatch(outcome) ==
    IF outcome.kind \in {"network", "json"} THEN [state |-> "rejected", value |-> NoString]
    ELSE IF outcome.kind = "status" THEN [state |-> "fulfilled", value |-> NoString]
    ELSE [state |-> "fulfilled", value |-> tierOf(outcome.data)]

\* fetchSubscriptionTier: undefined when the request throws, the status is not
\* ok or the body does not parse; its promise is never rejected
fetchSubscriptionTier(outcome) ==
    IF outcome.kind \in {"network", "json", "status"}
    THEN [state |-> "fulfilled", value |-> NoString]
    ELSE [state |-> "fulfilled", value |-> tierOf(outcome.data)]

\* the promise of fetch(QUOTA_API_URL): rejected on a network error
fetchListing(outcome) ==
    IF outcome.kind = "network" THEN [state |-> "rejected", value |-> outcome]
    ELSE [state |-> "fulfilled", value |-> outcome]

\* Promise.all of the two promises: rejected as soon as one is, fulfilled when
\* both are, pending otherwise
PromiseAll(tier, listing) ==
    IF tier.state = "rejected" \/ listing.state = "rejected" THEN "rejected"
    ELSE IF tier.state = "fulfilled" /\ listing.state = "fulfilled" THEN "fulfilled"
    ELSE "pending"

PendingPromise == [state |-> "pending", value |-> NoString]
NoError == [thrown |-> FALSE, message |-> ""]

\* fetchQuota after the await: the error thrown for a listing that is not ok,
\* the snapshot otherwise
afterAwait(q) ==
    IF PromiseAll(q.tier, q.listing) = "rejected"
    THEN [q EXCEPT !.pc = "failed",
                   !.error = [thrown |-> TRUE, message |-> "fetch failed"]]
    ELSE IF q.listing.value.kind # "ok"
    THEN [q EXCEPT !.pc = "failed",
                   !.error = [thrown |-> TRUE,
                              message |-> "Quota API error: "
                                            \o ToString(q.listing.value.status) \o " - "
                                            \o (IF q.listing.value.readable
                                                THEN q.listing.value.text ELSE "")]]
    ELSE [q EXCEPT !.pc = "done",
                   !.snapshot = [models |-> q.listing.value.models,
                                 subscriptionTier |-> q.tier.value]]

\* a call of fetchQuota about to be made on the given outcomes
QuotaCall(tierOutcome, listingOutcome) ==
    [pc |-> "call", tierOutcome |-> tierOutcome, listingOutcome |-> listingOutcome,
     tier |-> PendingPromise, listing |-> PendingPromise, first |-> "none",
     error |-> NoError, snapshot |-> [models |-> NoString, subscriptionTier |-> NoString]]

\* fetchQuota up to its await: both requests are sent
FetchQuota ==
    /\ quota.pc = "call"
    /\ quota' = [quota EXCEPT !.pc = "await"]
    /\ UNCHANGED <<idle, resolver, outbound, stream, unwrapped, report>>

\* the tier lookup settles, before or after the listing, and also after the
\* call has failed
TierLookupSettles ==
    /\ quota.pc \in {"await", "failed"}
    /\ quota.tier.state = "pending"
    /\ quota' = [quota EXCEPT !.tier = fetchSubscriptionTier(quota.tierOutcome),
                              !.first = IF @ = "none" THEN "tier" ELSE @]
    /\ UNCHANGED <<idle, resolver, outbound, stream, unwrapped, report>>

\* the quota listing settles, before or after the tier lookup
ListingSettles ==
    /\ quota.pc \in {"await", "failed"}
    /\ quota.listing.state = "pending"
    /\ quota' = [quota EXCEPT !.listing = fetchListing(quota.listingOutcome),
                              !.first = IF @ = "none" THEN "listing" ELSE @]
    /\ UNCHANGED <<idle, resolver, outbound, stream, unwrapped, report>>

\* the await returns or throws once Promise.all has settled
QuotaResumes ==
    /\ quota.pc = "await"
    /\ PromiseAll(quota.tier, quota.listing) # "pending"
    /\ quota' = afterAwait(quota)
    /\ UNCHANGED <<idle, resolver, outbound, stream, unwrapped, report>>

\* Quota on its own: one call of fetchQuota on any pair of outcomes.
InitQuota ==
    /\ InitIdle
    /\ InitResolver
    /\ outbound = NoOutbound
    /\ stream = NoStream
    /\ unwrapped = NoResponse
    /\ quota \in {QuotaCall(t, l) : t \in TierOutcomes, l \in ListingOutcomes}
    /\ report = NoReport
NextQuota ==
    \/ FetchQuota
    \/ TierLookupSettles
    \/ ListingSettles
    \/ QuotaResumes
SpecQuota == InitQuota /\ [][NextQuota]_vars

(***************************************************************************)
(* C28: fetchQuota runs the subscription-tier lookup and the quota listing *)
(* concurrently, and for every combination of their outcomes and           *)
(* completion orders: a failed tier lookup (network error or non-success   *)
(* status) yields a snapshot with an absent tier and never fails the call, *)
(* while a non-success quota listing makes the whole call fail with an     *)
(* error carrying the backend status code and body, whatever the tier      *)
(* lookup returned.                                                        *)
(* A body that cannot be read is carried as the empty text.                *)
(***************************************************************************)
\* the message of the error for each listing that is not ok
ErrorOfClaim ==
    << <<429, "Quota API error: 429 - quota exceeded">>,
       <<403, "Quota API error: 403 - ">>,
       <<500, "Quota API error: 500 - ">> >>

TierLookupFailed == quota.tierOutcome.kind \in {"network", "status", "json"}

C28_TierBestEffortListingFatal ==
    /\ quota.pc = "done" =>
           /\ quota.listingOutcome.kind = "ok"
           /\ TierLookupFailed => quota.snapshot.subscriptionTier = NoString
    /\ quota.pc = "failed" =>
           /\ quota.listingOutcome.kind # "ok"
           /\ quota.error.thrown
           /\ quota.listingOutcome.kind = "status" =>
                  /\ quota.tier.state = "fulfilled"
                  /\ quota.error.message =
                         Lookup(ErrorOfClaim, quota.listingOutcome.status)
    /\ (quota.pc = "await" /\ quota.first = "none") =>
           quota.tier.state = "pending" /\ quota.listing.state = "pending"
    /\ quota.pc \in {"call", "await", "failed", "done"}

\* the listing answered 429 before the tier lookup met a network error, and
\* the call failed with the status and the body of the listing
C28_Witness ==
    /\ quota.pc = "failed"
    /\ quota.first = "listing"
    /\ quota.tierOutcome.kind = "network"
    /\ quota.tier.state = "fulfilled"
    /\ quota.listingOutcome.kind = "status"
    /\ quota.listingOutcome.status = 429
    /\ quota.error.message = "Quota API error: 429 - quota exceeded"

(***************************************************************************)
(* C29: The subscription tier of a quota snapshot is the paid tier's value *)
(* when a paid tier is present and the current tier's value otherwise, and *)
(* whatever tier string the backend returns is passed through unchanged -  *)
(* the result is never restricted to a closed set of known tiers.          *)
(* The code keeps the id only when it is ULTRA, PRO or FREE and answers    *)
(* UNKNOWN otherwise, and a paid tier without an id gives way to the       *)
(* current tier; C29_TierFromPaidThenCurrentInClosedSet states the claim   *)
(* with these cases as the code has them, C29_TierPassedThrough states it  *)
(* as it was made.                                                         *)
(***************************************************************************)
\* the id the snapshot's tier is taken from, for a lookup that got data
ChosenTierId ==
    LET data == quota.tierOutcome.data
    IN  IF data.paidTier.id # NoString THEN data.paidTier.id ELSE data.currentTier.id

C29_TierFromPaidThenCurrentInClosedSet ==
    (quota.pc = "done" /\ quota.tierOutcome.kind = "data") =>
        /\ quota.snapshot.subscriptionTier \in {"ULTRA", "PRO", "FREE", "UNKNOWN"}
        /\ ChosenTierId \in {"ULTRA", "PRO", "FREE"} =>
               quota.snapshot.subscriptionTier = ChosenTierId
        /\ ChosenTierId \notin {"ULTRA", "PRO", "FREE"} =>
               quota.snapshot.subscriptionTier = "UNKNOWN"

C29_TierPassedThrough ==
    (quota.pc = "done" /\ quota.tierOutcome.kind = "data") =>
        quota.snapshot.subscriptionTier =
            IF quota.tierOutcome.data.paidTier.exists
            THEN quota.tierOutcome.data.paidTier.id
            ELSE quota.tierOutcome.data.currentTier.id

\* a lookup that found both a paid and a current tier gave the snapshot the
\* paid one
C29_Witness ==
    /\ quota.pc = "done"
    /\ quota.tierOutcome.kind = "data"
    /\ quota.tierOutcome.data.paidTier.id = "ULTRA"
    /\ quota.tierOutcome.data.currentTier.id = "FREE"
    /\ quota.snapshot.subscriptionTier = "ULTRA"

\* ---------------------------------------------------------------------------
\* Retry delays (lib/account-manager.ts, parseRetryDelay and
\* parseDurationString).  `report` holds one rate-limit error: the body the
\* backend answered with and the account, family and reason it is reported
\* for, then the delay parsed from the body and the key that was marked.
\* ---------------------------------------------------------------------------

\* \d
DecimalDigits == "0123456789"
isDigit(ch) == indexOf(DecimalDigits, ch) >= 0

\* \d+ at 1-based position pos: the number of digits matched
RECURSIVE digitRun(_, _)
digitRun(s, pos) ==
    IF pos <= Len(s) /\ isDigit(SubSeq(s, pos, pos)) THEN 1 + digitRun(s, pos + 1) ELSE 0

\* parseInt(digits, 10) for a string of digits; 0 for the '0' that stands in
\* for a group that did not take part
RECURSIVE parseInt(_)
parseInt(digits) ==
    IF digits = "" THEN 0
    ELSE parseInt(SubSeq(digits, 1, Len(digits) - 1)) * 10
           + indexOf(DecimalDigits, SubSeq(digits, Len(digits), Len(digits)))

\* the literal is at position pos
literalAt(s, pos, literal) ==
    /\ pos + Len(literal) - 1 <= Len(s)
    /\ SubSeq(s, pos, pos + Len(literal) - 1) = literal

\* (?:(\d+)unit)? tried at pos: the digits captured and the position after
\* the group, or no digits and pos when the group does not take part
unitGroup(s, pos, unit) ==
    LET n == digitRun(s, pos)
    IN  IF n > 0 /\ literalAt(s, pos + n, unit)
        THEN [digits |-> SubSeq(s, pos, pos + n - 1), next |-> pos + n + Len(unit)]
        ELSE [digits |-> "", next |-> pos]

\* (?:(\d+(?:\.\d+)?)s)? tried at pos: the digits before and after the point
secondsGroup(s, pos) ==
    LET n == digitRun(s, pos)
        f == IF n > 0 /\ literalAt(s, pos + n, ".") THEN digitRun(s, pos + n + 1) ELSE 0
        len == IF f > 0 THEN n + 1 + f ELSE n
    IN  IF n > 0 /\ literalAt(s, pos + len, "s")
        THEN [digits |-> SubSeq(s, pos, pos + n - 1),
              fraction |-> IF f > 0 THEN SubSeq(s, pos + n + 1, pos + n + f) ELSE "",
              next |-> pos + len + 1]
        ELSE [digits |-> "", fraction |-> "", next |-> pos]

\* parseDurationString: the expression has no anchor and every group of it is
\* optional, so it matches at the start of the string, each group in turn
\* taking what it can; seconds are rounded up
parseDurationString(s) ==
    LET h == unitGroup(s, 1, "h")
        m == unitGroup(s, h.next, "m")
        sec == secondsGroup(s, m.next)
        ms == unitGroup(s, sec.next, "ms")
        hours == parseInt(h.digits)
        minutes == parseInt(m.digits)
        ceilSeconds == parseInt(sec.digits) + (IF parseInt(sec.fraction) > 0 THEN 1 ELSE 0)
        milliseconds == parseInt(ms.digits)
        totalMs == (hours * 3600 + minutes * 60 + ceilSeconds) * 1000 + milliseconds
    IN  IF totalMs > 0 THEN totalMs ELSE Undefined

\* one entry of error.details: metadata.quotaResetDelay, '@type', retryDelay
NoDetail == [quotaResetDelay |-> NoString, type |-> NoString, retryDelay |-> NoString]

\* the first delay the details give, in order: an entry's quotaResetDelay,
\* then its retryDelay when its type holds 'RetryInfo'
RECURSIVE firstDelay(_)
firstDelay(details) ==
    IF details = <<>> THEN Undefined
    ELSE LET detail == Head(details)
             quotaDelay == IF detail.quotaResetDelay # NoString
                           THEN parseDurationString(detail.quotaResetDelay)
                           ELSE Undefined
             retryDelay == IF includes(detail.type, "RetryInfo")
                              /\ detail.retryDelay # NoString
                           THEN parseDurationString(detail.retryDelay)
                           ELSE Undefined
         IN  IF quotaDelay # Undefined THEN quotaDelay
             ELSE IF retryDelay # Undefined THEN retryDelay
             ELSE firstDelay(Tail(details))

\* parseRetryDelay: undefined for a body that does not parse or has no array
\* of details
parseRetryDelay(errorBody) ==
    IF errorBody.parses /\ errorBody.hasDetails THEN firstDelay(errorBody.details)
    ELSE Undefined

\* the durations a backend states
DurationStrings ==
    {"2h1m30s", "500ms", "0s", "42s", "1.5s", "1m500ms", "1h", "soon"}

\* error bodies: not JSON, without details, with the duration as the
\* quotaResetDelay or as the retryDelay of a RetryInfo, and with an entry
\* whose duration is zero before the RetryInfo
RetryInfoType == "type.googleapis.com/google.rpc.RetryInfo"
ErrorBodies ==
    {[parses |-> FALSE, hasDetails |-> FALSE, details |-> <<>>],
     [parses |-> TRUE, hasDetails |-> FALSE, details |-> <<>>]}
    \cup {[parses |-> TRUE, hasDetails |-> TRUE,
           details |-> <<[NoDetail EXCEPT !.quotaResetDelay = d]>>] : d \in DurationStrings}
    \cup {[parses |-> TRUE, hasDetails |-> TRUE,
           details |-> <<[NoDetail EXCEPT !.type = RetryInfoType, !.retryDelay = d]>>] :
              d \in DurationStrings}
    \cup {[parses |-> TRUE, hasDetails |-> TRUE,
           details |-> <<[NoDetail EXCEPT !.quotaResetDelay = "0s"],
                         [NoDetail EXCEPT !.type = RetryInfoType, !.retryDelay = d]>>] :
              d \in {"42s", "500ms"}}

\* the caller reports the error: the delay parsed from the body goes to
\* markRateLimited with the account, the family and the reason
ReportRateLimit ==
    /\ report.pc = "error"
    /\ report.slot \in Slots
    /\ LET delay == parseRetryDelay(report.errorBody)
           r == markRateLimited(Mgr, report.slot, delay, report.family, "antigravity",
                                NoString, report.reason, now)
       IN  /\ Set(r)
           /\ report' = [report EXCEPT !.pc = "marked", !.retryAfterMs = delay,
                                       !.key = r.ret]
    /\ marks' = marks + 1
    /\ UNCHANGED <<now, flows, visited, resolver, outbound, stream, unwrapped, quota>>

\* Retry delays on their own: a loaded pool and one error to report.
InitDelay ==
    /\ Loaded(StartSnapshots)
    /\ flows = [p \in FlowIds |-> Idle]
    /\ visited = <<>>
    /\ InitResolver
    /\ outbound = NoOutbound
    /\ stream = NoStream
    /\ unwrapped = NoResponse
    /\ quota = NoQuota
    /\ report \in [pc : {"error"}, errorBody : ErrorBodies, slot : 0..(MaxAccounts - 1),
                   family : ModelFamily, reason : {"quota_exhausted", "unknown"},
                   retryAfterMs : {Undefined}, key : {NoString}]
    /\ report.slot \in Slots
NextDelay == ReportRateLimit
SpecDelay == InitDelay /\ [][NextDelay]_vars

(***************************************************************************)
(* C30: Duration-string parsing sums the hour, minute, second and          *)
(* millisecond components of the string: "2h1m30s" gives 7,290,000 ms,     *)
(* "500ms" gives 500 ms, and a zero total such as "0s" gives undefined     *)
(* (absent), so that a retry delay parsed from an error body and passed to *)
(* markRateLimited is the delay the backend stated.                        *)
(* The delay of each duration is tabulated; a body whose first duration    *)
(* gives no delay is read on to its next one, and a body that gives none   *)
(* at all leaves the default of the reason. The duration with a fraction   *)
(* of a second, which the code rounds up, is left out of the table.        *)
(***************************************************************************)
DelayOfClaim ==
    << <<"2h1m30s", 7290000>>,
       <<"500ms", 500>>,
       <<"0s", Undefined>>,
       <<"42s", 42000>>,
       <<"1m500ms", 60500>>,
       <<"1h", 3600000>>,
       <<"soon", Undefined>> >>

\* the duration an entry of the details states
StatedBy(detail) ==
    IF detail.quotaResetDelay # NoString THEN detail.quotaResetDelay ELSE detail.retryDelay

\* the delay the body states: that of its first entry that gives one
RECURSIVE StatedDelay(_)
StatedDelay(details) ==
    IF details = <<>> THEN Undefined
    ELSE IF Lookup(DelayOfClaim, StatedBy(Head(details))) # Undefined
    THEN Lookup(DelayOfClaim, StatedBy(Head(details)))
    ELSE StatedDelay(Tail(details))

C30_DelayIsTheDelayStated ==
    (/\ report.pc = "marked"
     /\ \A i \in 1..Len(report.errorBody.details) :
            StatedBy(report.errorBody.details[i]) # "1.5s") =>
        LET stated == StatedDelay(report.errorBody.details)
        IN  /\ report.retryAfterMs = stated
            /\ At(accounts, report.slot).rateLimitResetTimes[report.key] =
                   now + (IF stated # Undefined THEN stated
                          ELSE RATE_LIMIT_DEFAULTS[report.reason])

(***************************************************************************)
(* SpecLife: the life of the pool with rate limits.  A manager is          *)
(* constructed empty; snapshots are loaded, accounts are added and         *)
(* removed, requests acquire accounts and report rate limits, in any       *)
(* order, at one instant.                                                  *)
(***************************************************************************)
\* snapshots handed to loadFromStorage: stored pointers missing, negative, in
\* range and at or beyond the pool size
LifeSnapshots ==
    {NullData} \cup
    {PoolSnapshot(n, pc, pg) : n \in 0..MaxAccounts, pc \in {Undefined, MaxAccounts},
                               pg \in {-2, 1}}

LifeLoad ==
    \E data \in LifeSnapshots :
        /\ Set(loadFromStorage(Mgr, data))
        /\ UNCHANGED <<now, marks, callers>>

\* markRateLimited with a delay of one tick for a text request
LifeMark ==
    \E slot \in Slots, family \in ModelFamily, headerStyle \in HeaderStyle :
        LET r == markRateLimited(Mgr, slot, 1, family, headerStyle, NoString,
                                 "unknown", now)
        IN  /\ marks < MaxMarks
            /\ marks' = marks + 1
            /\ Set(r)
            /\ UNCHANGED <<now, callers>>

NextLife ==
    \/ LifeLoad
    \/ AddAccount
    \/ RemoveAccount
    \/ GetCurrentOrNextForFamily
    \/ LifeMark

SpecLife == InitPool /\ [][NextLife]_vars

(***************************************************************************)
(* C31: After any sequence of load, addOrUpdate, remove, acquireForFamily  *)
(* and markRateLimited operations, each family pointer is -1 if and only   *)
(* if the pool is empty and otherwise lies in [0, pool size), so           *)
(* currentForFamily returns an account of the pool whenever the pool is    *)
(* non-empty.                                                              *)
(***************************************************************************)
C31_PointersAddressThePool ==
    \A f \in ModelFamily :
        LET p == currentAccountIndexByFamily[f]
        IN  /\ (p = -1) <=> (Len(accounts) = 0)
            /\ Len(accounts) > 0 =>
                   /\ p >= 0 /\ p < Len(accounts)
                   /\ getCurrentAccountForFamily(Mgr, f) \in Slots
                   /\ At(accounts, getCurrentAccountForFamily(Mgr, f)).index = p

\* the first account of a loaded pool was removed, an account was added, the
\* account left at the front was reported for family A, and the next request
\* of family A moved the pointer to the added account
C31_Witness ==
    /\ Len(accounts) = 2
    /\ At(accounts, 0).refreshToken = "r2"
    /\ At(accounts, 1).refreshToken = "r3"
    /\ At(accounts, 0).rateLimitResetTimes["claude"] = now + 1
    /\ At(accounts, 1).lastSwitchReason = "rate-limit"
    /\ currentAccountIndexByFamily["claude"] = 1
    /\ getCurrentAccountForFamily(Mgr, "claude") = 1

(***************************************************************************)
(* C32: minWaitMs(f) is 0 whenever some account of the pool is currently   *)
(* usable for family f (acquireForFamily(f) would return an account),      *)
(* including a family-B account that is rate-limited on only one of its    *)
(* two header styles; a positive wait is reported only when every account  *)
(* is rate-limited for f.                                                  *)
(***************************************************************************)
C32_NoWaitWhileAnAccountIsUsable ==
    \A family \in ModelFamily :
        /\ Acquire(family).ret # NoIndex => getMinWaitTime(Mgr, family, now).ret = 0
        /\ getMinWaitTime(Mgr, family, now).ret > 0 =>
               \A slot \in Slots : FamilyBlockedAt(At(accounts, slot), family, now)

(***************************************************************************)
(* C33: A later markRateLimited never shortens a cooldown that is still    *)
(* running: if a quota key of an account is rate-limited until T and       *)
(* markRateLimited is applied to the same key before T (for example by a   *)
(* second in-flight request reporting a shorter delay or a reason with a   *)
(* smaller default), the key remains rate-limited until at least T.        *)
(* markRateLimited writes now + delay whatever the key held;               *)
(* C33_LaterReportReplacesCooldown states that the later report replaces   *)
(* the cooldown, C33_LaterReportNeverShortens states the claim as it was   *)
(* made. Both speak of the report a request in flight may make on the      *)
(* account it holds.                                                       *)
(***************************************************************************)
\* the reset time of the key after the flow p reports on its account
AfterReport(p, retryAfterMs, headerStyle, requestType, reason) ==
    At(markRateLimited(Mgr, flows[p].account, retryAfterMs, flows[p].family, headerStyle,
                       requestType, reason, now).m.accounts,
       flows[p].account).rateLimitResetTimes[
           KeyOfClaim(flows[p].family, headerStyle, requestType)]

\* the key is rate-limited at the moment of the report
RunningCooldown(p, headerStyle, requestType) ==
    /\ flows[p].pc = "io"
    /\ KeyBlockedAt(At(accounts, flows[p].account),
                    KeyOfClaim(flows[p].family, headerStyle, requestType), now)

\* the reports a request may make: a delay, or a reason without a delay
ReportsOfClaim ==
    {<<d, "unknown">> : d \in Delays} \cup {<<Undefined, reason>> : reason \in RateLimitReason}

C33_LaterReportReplacesCooldown ==
    \A p \in FlowIds :
        flows[p].pc = "io" =>
            \A headerStyle \in HeaderStyle, requestType \in RequestInputs :
                RunningCooldown(p, headerStyle, requestType) =>
                    \A rep \in ReportsOfClaim :
                        LET T == At(accounts, flows[p].account).rateLimitResetTimes[
                                     KeyOfClaim(flows[p].family, headerStyle, requestType)]
                            delay == IF rep[1] # Undefined THEN rep[1]
                                     ELSE CooldownOfClaim(rep[2])
                            after == AfterReport(p, rep[1], headerStyle, requestType, rep[2])
                        IN  /\ after = now + delay
                            /\ after >= T <=> delay >= T - now

C33_LaterReportNeverShortens ==
    \A p \in FlowIds :
        flows[p].pc = "io" =>
            \A headerStyle \in HeaderStyle, requestType \in RequestInputs :
                RunningCooldown(p, headerStyle, requestType) =>
                    \A rep \in ReportsOfClaim :
                        AfterReport(p, rep[1], headerStyle, requestType, rep[2])
                            >= At(accounts, flows[p].account).rateLimitResetTimes[
                                   KeyOfClaim(flows[p].family, headerStyle, requestType)]

\* two requests hold the same account; the first reported a delay of two
\* ticks, and the second, still in flight, is about to report a delay of one
C33_Witness ==
    /\ flows[1] = Idle
    /\ flows[2].pc = "io"
    /\ flows[2].family = "claude"
    /\ marks = 1
    /\ now = 0
    /\ At(accounts, flows[2].account).rateLimitResetTimes["claude"] = 2
    /\ AfterReport(2, 1, "antigravity", NoString, "unknown") = 1

(***************************************************************************)
(* SpecSignIn: accounts are added, updated and removed on a manager that   *)
(* starts empty; nothing is loaded.                                        *)
(***************************************************************************)
NextSignIn ==
    \/ AddCredential
    \/ RemoveAccount

SpecSignIn == InitPool /\ [][NextSignIn]_vars

(***************************************************************************)
(* C34: After any sequence of addOrUpdate and remove calls starting from   *)
(* an empty pool, no two accounts of the pool have the same refresh token  *)
(* and no two have the same defined email, i.e. matching by email or       *)
(* refresh token never leaves duplicate credentials in the pool.           *)
(***************************************************************************)
C34_NoDuplicateCredentials ==
    \A i \in Slots, j \in Slots :
        i # j =>
            /\ At(accounts, i).refreshToken # At(accounts, j).refreshToken
            /\ At(accounts, i).email # NoString =>
                   At(accounts, i).email # At(accounts, j).email

(***************************************************************************)
(* The selection queries side by side: accounts are marked rate-limited    *)
(* for one tick, for text and for image requests, time passes, and         *)
(* getCurrentOrNextForFamily, getAvailableHeaderStyle,                     *)
(* allAccountsRateLimited and getMinWaitTime are called in any order.      *)
(***************************************************************************)
\* markRateLimited with a delay of one tick, for a text or an image request
SelectMark ==
    \E slot \in Slots, family \in ModelFamily, headerStyle \in HeaderStyle,
       requestType \in {NoString, "image_gen"} :
        LET r == markRateLimited(Mgr, slot, 1, family, headerStyle, requestType,
                                 "unknown", now)
        IN  /\ marks < MaxMarks
            /\ marks' = marks + 1
            /\ Set(r)
            /\ UNCHANGED <<now, callers>>

NextSelect ==
    \/ SelectMark
    \/ GetCurrentOrNextForFamily
    \/ GetAvailableHeaderStyle
    \/ AllAccountsRateLimited
    \/ GetMinWaitTime
    \/ Tick

SpecSelect == Init /\ [][NextSelect]_vars


(***************************************************************************)
(* C35: allRateLimited(f), acquireForFamily(f) and headerStyleFor agree in *)
(* every reachable state at the same instant. acquireForFamily(f) returns  *)
(* null if and only if allRateLimited(f) is true, an empty pool counting   *)
(* as all rate-limited, and headerStyleFor(a, f) is not null for the       *)
(* account a that acquireForFamily(f) returns.                             *)
(***************************************************************************)
C35_SelectionQueriesAgree ==
    \A family \in ModelFamily :
        LET r == Acquire(family)
            all == allAccountsRateLimited(Mgr, family, now).ret
        IN  /\ (r.ret = NoIndex) <=> all
            /\ Len(accounts) = 0 => all
            /\ r.ret # NoIndex =>
                  /\ getAvailableHeaderStyle(r.m, r.ret, family, now).ret # "null"
                  /\ getAvailableHeaderStyle(Mgr, r.ret, family, now).ret # "null"

\* an account whose limit has expired is returned with a header style while
\* another account is still rate-limited
C35_Witness ==
    /\ Len(accounts) > 1
    /\ now > 0
    /\ \E family \in ModelFamily :
          LET r == Acquire(family)
          IN  /\ r.ret # NoIndex
              /\ \E key \in QuotaKey :
                    /\ At(accounts, r.ret).rateLimitResetTimes[key] # Undefined
                    /\ At(accounts, r.ret).rateLimitResetTimes[key] <= now
              /\ \E i \in Slots : isRateLimitedForFamily(At(accounts, i), family, now)
              /\ ~allAccountsRateLimited(Mgr, family, now).ret
              /\ getAvailableHeaderStyle(Mgr, r.ret, family, now).ret # "null"

(***************************************************************************)
(* C36: the image quota key never influences selection. Two pool states    *)
(* that differ only in the accounts' image-key reset times give the same   *)
(* results for acquireForFamily, headerStyleFor, allRateLimited and        *)
(* minWaitMs, for both families; so an account whose image quota was       *)
(* reported exhausted is still returned for the next family-B request.     *)
(***************************************************************************)
\* the manager with every account's image-key reset time erased: two managers
\* that differ only in image-key reset times have the same one
WithoutImageTimes(m) ==
    [m EXCEPT !.accounts =
        [i \in 1..Len(m.accounts) |->
            [m.accounts[i] EXCEPT !.rateLimitResetTimes["gemini-image"] = Undefined]]]
\* pointers and cursor of a manager
Selection(m) == <<m.currentAccountIndexByFamily, m.cursor>>

C36_ImageKeyNeverInfluencesSelection ==
    LET other == WithoutImageTimes(Mgr)
    IN  \A family \in ModelFamily :
            LET r == getCurrentOrNextForFamily(Mgr, family, now)
                ro == getCurrentOrNextForFamily(other, family, now)
            IN  /\ ro.ret = r.ret
                /\ Selection(ro.m) = Selection(r.m)
                /\ allAccountsRateLimited(other, family, now).ret
                      = allAccountsRateLimited(Mgr, family, now).ret
                /\ getMinWaitTime(other, family, now).ret
                      = getMinWaitTime(Mgr, family, now).ret
                /\ \A slot \in Slots :
                      getAvailableHeaderStyle(other, slot, family, now).ret
                          = getAvailableHeaderStyle(Mgr, slot, family, now).ret

\* the current gemini account has its image key rate-limited and is returned
\* for the next gemini request, with a header style
C36_Witness ==
    LET current == currentAccountIndexByFamily["gemini"]
    IN  /\ InRange(accounts, current)
        /\ Len(accounts) > 1
        /\ isRateLimitedForQuotaKey(At(accounts, current), "gemini-image", now)
        /\ Acquire("gemini").ret = current
        /\ getAvailableHeaderStyle(Mgr, current, "gemini", now).ret # "null"
        /\ ~allAccountsRateLimited(Mgr, "gemini", now).ret

(***************************************************************************)
(* Saving and loading.  Accounts are signed in and removed, acquired,      *)
(* marked rate-limited and given fresh access tokens while time passes;    *)
(* at any point the manager is replaced by a fresh one loaded from the     *)
(* snapshot toStorageData took of it.                                      *)
(***************************************************************************)
\* a restart: new AccountManager().loadFromStorage(old.toStorageData())
Reload ==
    /\ Set(loadFromStorage(New, toStorageData(Mgr)))
    /\ UNCHANGED <<now, marks, callers>>

\* markRateLimited with a delay of one tick, for a text request sent with the
\* antigravity headers
PersistMark ==
    \E slot \in Slots, family \in ModelFamily :
        LET r == markRateLimited(Mgr, slot, 1, family, "antigravity", NoString,
                                 "unknown", now)
        IN  /\ marks < MaxMarks
            /\ marks' = marks + 1
            /\ Set(r)
            /\ UNCHANGED <<now, callers>>

\* addAccount with the credentials of one sign-in, which carry an email
SignIn ==
    LET r == addAccount(Mgr, [email |-> "e1", refresh_token |-> "r3",
                              project_id |-> "p2", access_token |-> "at",
                              expires_at |-> MaxTime + 1], now)
    IN  /\ Set(r)
        /\ UNCHANGED <<now, marks, callers>>

NextPersist ==
    \/ SignIn
    \/ RemoveAccount
    \/ GetCurrentOrNextForFamily
    \/ PersistMark
    \/ Tick
    \/ Reload

SpecPersist == Init /\ [][NextPersist]_vars

(***************************************************************************)
(* C37: persistence round trip. For every reachable pool state, loading    *)
(* the snapshot toStorageData produces into a fresh manager yields the     *)
(* same accounts in the same order, with the same persisted fields (email, *)
(* projectId, refreshToken, addedAt, lastUsed and the recorded rate-limit  *)
(* reset times, the unexpired ones among them) and the same two family     *)
(* pointers. Only the access token, its expiry, the last switch reason and *)
(* the rotation cursor are not preserved: the first three come back        *)
(* undefined and the cursor comes back as the claude pointer.              *)
(***************************************************************************)
\* the fields of a managed account that a snapshot stores
Persisted(account) ==
    [email |-> account.email, projectId |-> account.projectId,
     refreshToken |-> account.refreshToken, addedAt |-> account.addedAt,
     lastUsed |-> account.lastUsed,
     rateLimitResetTimes |-> account.rateLimitResetTimes]
\* the fresh manager loaded from the snapshot of the current one
Restored == loadFromStorage(New, toStorageData(Mgr)).m

C37_PersistenceRoundTrip ==
    LET back == Restored
    IN  /\ Len(back.accounts) = Len(accounts)
        /\ \A i \in 1..Len(accounts) :
              LET account == back.accounts[i]
              IN  /\ Persisted(account) = Persisted(accounts[i])
                  /\ account.index = accounts[i].index
                  /\ account.accessToken = NoString
                  /\ account.expiresAt = Undefined
                  /\ account.lastSwitchReason = NoString
        /\ back.currentAccountIndexByFamily = currentAccountIndexByFamily
        /\ back.cursor = Max(0, currentAccountIndexByFamily["claude"])

\* a pool of two with different pointers, one account with a running and one
\* with no rate limit, an access token, a switch reason and a cursor that is
\* not the claude pointer: all but the last three survive the round trip
C37_Witness ==
    /\ Len(accounts) = 2
    /\ currentAccountIndexByFamily["claude"] # currentAccountIndexByFamily["gemini"]
    /\ cursor # currentAccountIndexByFamily["claude"]
    /\ \E i \in Slots : \E key \in QuotaKey :
          isRateLimitedForQuotaKey(At(accounts, i), key, now)
    /\ \E i \in Slots : At(accounts, i).rateLimitResetTimes = NoLimits
    /\ \E i \in Slots : At(accounts, i).accessToken # NoString
    /\ \E i \in Slots : At(accounts, i).lastSwitchReason # NoString
    /\ \E i \in Slots : At(accounts, i).email # NoString
    /\ Restored.accounts # accounts
    /\ Restored.cursor # cursor

(***************************************************************************)
(* C38: the output of unwrapStreamingResponse does not depend on how the   *)
(* input is chunked. For any input text and any two ways of splitting it   *)
(* into a sequence of chunks, splits in the middle of a data line          *)
(* included, the concatenation of all emitted output, the final flush      *)
(* included, is identical.                                                 *)
(* Every chunking is compared with the body arriving as one chunk: what    *)
(* was emitted when the stream closes is what transform and flush emit for *)
(* the whole text at once, so any two chunkings emit the same.             *)
(***************************************************************************)
\* the concatenation of the enqueued pieces
RECURSIVE Emitted(_)
Emitted(out) ==
    IF out = <<>> THEN "" ELSE out[1] \o Emitted(Tail(out))
\* the stream after the whole body arrived as one chunk and the body ended
InOneChunk(body) == flush(transform(StreamOf(body, <<>>), TextOf(body)))

C38_OutputIndependentOfChunking ==
    stream.pc = "closed" =>
        Emitted(stream.out) = Emitted(InOneChunk(stream.body).out)

\* the event of the documentation arrived cut within the payload of its data
\* line, and the stream closed with the unwrapped event emitted
C38_Witness ==
    /\ stream.pc = "closed"
    /\ stream.body.lines = <<"data: {\"response\":{\"text\":\"hi\"}}", "">>
    /\ stream.cuts # <<>>
    /\ stream.cuts[1] > 6
    /\ stream.cuts[1] < Len(stream.body.lines[1])
    /\ Emitted(stream.out) = "data: {\"text\":\"hi\"}\n\n"
    /\ Emitted(stream.out) = Emitted(InOneChunk(stream.body).out)

=============================================================================
